---------------------------- MODULE Spec2Model ----------------------------
(***************************************************************************)
(* Model of the OrderTime inventory handlers of Bin-Transfer-Web.          *)
(*                                                                         *)
(*   report pipeline  src/unnamed/part_000 and src/unnamed/part_001        *)
(*   live pipeline    src/unnamed/part_002 (src/api/ordertime/live.js      *)
(*                    holds two earlier copies of the same handler)        *)
(*                                                                         *)
(* JavaScript strings are sequences of one-character strings; JavaScript   *)
(* values are records [t, s, n] (see the section "JavaScript values").     *)
(***************************************************************************)
EXTENDS Integers, Sequences, FiniteSets, TLC

VARIABLES
    entry,       \* which entry point of the repository this behaviour exercises
    csvText,     \* parseCsvToObjects: the argument `text`
    csvField,    \* the field value that was written into csvText
    csvRows,     \* parseCsvToObjects: the returned rows (NotYet before the call)
    repEnv,      \* report: process.env (OT_REPORT_URL, OT_BEARER_TOKEN, OT_BASIC_*)
    upstream,    \* report: what fetch(url) and r.text() do
    repRun,      \* report: NoRun, or what one run of a handler did
    query,       \* live: the query parameters location, binPrefix, qtygt
    invBalances, \* live: the inventory balances listAll returned
    lots,        \* live: the lot/serial records listAll returned
    items,       \* live: the item records listAll returned
    bins,        \* live: the bin records listAll returned
    liveRes,     \* live: the responses sent, in order
    otEnv,       \* live: process.env (OT_BASE_URL, OT_API_KEY, OT_BASIC_*), as set or not
    hpc,         \* live: where the handler is
    lst,         \* live: per entity type, the listAll call for it
    budget       \* live: what the endpoint has done so far in a request

csvVars == <<csvText, csvField, csvRows>>
repVars == <<repEnv, upstream, repRun>>
joinVars == <<query, invBalances, lots, items, bins, liveRes>>
otVars == <<otEnv, hpc, lst, budget>>
vars == <<entry, csvVars, repVars, joinVars, otVars>>

NotYet == "not-yet"

-----------------------------------------------------------------------------
(* Characters and strings                                                  *)

QUOTE == "\""
COMMA == ","
NL    == "\n"
CR    == "\r"
SPACE == " "
TAB   == "\t"

EmptyStr == << >>

\* The characters String.prototype.trim removes (those of the modelled alphabet).
Whitespace == {SPACE, NL, CR, TAB}

RECURSIVE TrimLeft(_)
TrimLeft(s) ==
    IF s # EmptyStr /\ Head(s) \in Whitespace THEN TrimLeft(Tail(s)) ELSE s

RECURSIVE TrimRight(_)
TrimRight(s) ==
    IF s # EmptyStr /\ s[Len(s)] \in Whitespace
    THEN TrimRight(SubSeq(s, 1, Len(s) - 1))
    ELSE s

\* String.prototype.trim
Trim(s) == TrimRight(TrimLeft(s))

\* s.startsWith(p): case-sensitive, character by character.
StartsWith(s, p) ==
    /\ Len(p) <= Len(s)
    /\ \A i \in 1..Len(p) : s[i] = p[i]

\* A slice that keeps one character too many.
SliceToOffByOne(s, n) == SubSeq(s, 1, IF Len(s) < n + 1 THEN Len(s) ELSE n + 1)

\* s.slice(0, n)
SliceTo(s, n) == SubSeq(s, 1, IF Len(s) < n THEN Len(s) ELSE n)

\* All sequences over S of length at most n.
SeqsUpTo(S, n) == UNION {[1..k -> S] : k \in 0..n}

-----------------------------------------------------------------------------
(* The CSV parser of the report pipeline (part_001:4-71)                   *)

\* text.replace(/\r\n/g, "\n").replace(/\r/g, "\n")
RECURSIVE NormalizeEol(_)
NormalizeEol(s) ==
    IF s = EmptyStr THEN EmptyStr
    ELSE IF Head(s) = CR
         THEN IF Len(s) >= 2 /\ s[2] = NL
              THEN <<NL>> \o NormalizeEol(Tail(Tail(s)))
              ELSE <<NL>> \o NormalizeEol(Tail(s))
         ELSE <<Head(s)>> \o NormalizeEol(Tail(s))

\* The for loop of splitCsvLine, from index i (1-based) with the locals
\* out, cur and inQ; the result is out after the final out.push(cur).
RECURSIVE splitCsvLineLoop(_, _, _, _, _)
splitCsvLineLoop(line, i, out, cur, inQ) ==
    IF i > Len(line) THEN Append(out, cur)
    ELSE LET ch == line[i] IN
         IF inQ
         THEN IF ch = QUOTE
              THEN IF i + 1 <= Len(line) /\ line[i + 1] = QUOTE
                   THEN splitCsvLineLoop(line, i + 2, out, Append(cur, QUOTE), inQ)
                   ELSE splitCsvLineLoop(line, i + 1, out, cur, FALSE)
              ELSE splitCsvLineLoop(line, i + 1, out, Append(cur, ch), inQ)
         ELSE IF ch = COMMA
              THEN splitCsvLineLoop(line, i + 1, Append(out, cur), EmptyStr, inQ)
              ELSE IF ch = QUOTE
                   THEN splitCsvLineLoop(line, i + 1, out, cur, TRUE)
                   ELSE splitCsvLineLoop(line, i + 1, out, Append(cur, ch), inQ)

splitCsvLine(line) == splitCsvLineLoop(line, 1, << >>, EmptyStr, FALSE)

\* The record-splitting loop (part_001:41-56), from index i with the locals
\* records, buf and inQ.  buf += ch happens once per iteration; the i++ of
\* line 49 steps over the second quote of a pair without adding it to buf.
RECURSIVE splitRecordsLoop(_, _, _, _, _)
splitRecordsLoop(text, i, records, buf, inQ) ==
    IF i > Len(text)
    THEN IF buf # EmptyStr THEN Append(records, buf) ELSE records
    ELSE LET ch   == text[i]
             buf1 == Append(buf, ch)
             dbl  == ch = QUOTE /\ i + 1 <= Len(text) /\ text[i + 1] = QUOTE
             i1   == IF dbl THEN i + 1 ELSE i
             inQ1 == IF ch = QUOTE /\ ~dbl THEN ~inQ ELSE inQ
         IN  IF ch = NL /\ ~inQ1
             THEN splitRecordsLoop(text, i1 + 1,
                                   Append(records, SubSeq(buf1, 1, Len(buf1) - 1)),
                                   EmptyStr, inQ1)
             ELSE splitRecordsLoop(text, i1 + 1, records, buf1, inQ1)

splitRecords(text) == splitRecordsLoop(text, 1, << >>, EmptyStr, FALSE)

\* cols[c] ?? ""
ColOrEmpty(cols, c) == IF c <= Len(cols) THEN cols[c] ELSE EmptyStr

\* The object built at part_001:64-67: obj[headers[c]] = (cols[c] ?? "").trim(),
\* c ascending, so the last column with a given header wins.
RowObject(headers, cols) ==
    [h \in {headers[c] : c \in 1..Len(headers)} |->
        LET c == CHOOSE d \in 1..Len(headers) :
                    /\ headers[d] = h
                    /\ \A e \in 1..Len(headers) : headers[e] = h => e <= d
        IN  Trim(ColOrEmpty(cols, c))]

\* The loop of part_001:61-69 over records[i], i >= 1 (0-based), skipping
\* empty records.
RECURSIVE csvRowsLoop(_, _, _, _)
csvRowsLoop(records, headers, i, rows) ==
    IF i > Len(records) THEN rows
    ELSE IF records[i] = EmptyStr
         THEN csvRowsLoop(records, headers, i + 1, rows)
         ELSE csvRowsLoop(records, headers, i + 1,
                          Append(rows, RowObject(headers, splitCsvLine(records[i]))))

parseCsvToObjects(text) ==
    LET records == splitRecords(NormalizeEol(text)) IN
    IF Len(records) = 0 THEN << >>
    ELSE LET cols0   == splitCsvLine(records[1])
             headers == [c \in 1..Len(cols0) |-> Trim(cols0[c])]
         IN  csvRowsLoop(records, headers, 2, << >>)

-----------------------------------------------------------------------------
(* SpecCsv: parseCsvToObjects applied to a two-column file whose first     *)
(* data field is written as a double-quoted field.                          *)

MaxFieldLen == 3

H == <<"H">>
G == <<"G">>
X == <<"x">>

\* Ordinary character, comma, double quote, newline.
FieldAlphabet == {"a", COMMA, QUOTE, NL}

\* Field values with no leading or trailing whitespace.
\* The value  a,"b"  of the parser's documented example.
QuotedExample == <<"a", COMMA, QUOTE, "b", QUOTE>>

FieldValues ==
    {v \in SeqsUpTo(FieldAlphabet, MaxFieldLen) : Trim(v) = v} \cup {QuotedExample}

\* Each inner quote doubled.
RECURSIVE DoubleQuotes(_)
DoubleQuotes(v) ==
    IF v = EmptyStr THEN EmptyStr
    ELSE (IF Head(v) = QUOTE THEN <<QUOTE, QUOTE>> ELSE <<Head(v)>>)
         \o DoubleQuotes(Tail(v))

QuotedField(v) == <<QUOTE>> \o DoubleQuotes(v) \o <<QUOTE>>

\* Header H,G and one data line "<v>",x with or without a final newline.
CsvFile(v, finalNl) ==
    H \o <<COMMA>> \o G \o <<NL>> \o QuotedField(v) \o <<COMMA>> \o X
      \o (IF finalNl THEN <<NL>> ELSE EmptyStr)

Idle == "idle"

CsvIdle == csvText = Idle /\ csvField = Idle /\ csvRows = Idle
RepIdle == repEnv = Idle /\ upstream = Idle /\ repRun = Idle
JoinIdle ==
    /\ query = Idle /\ invBalances = Idle /\ lots = Idle
    /\ items = Idle /\ bins = Idle /\ liveRes = Idle
OtIdle == otEnv = Idle /\ hpc = Idle /\ lst = Idle /\ budget = Idle

InitCsv ==
    /\ entry = "parseCsvToObjects"
    /\ OtIdle
    /\ RepIdle
    /\ JoinIdle
    /\ csvField \in FieldValues
    /\ \E finalNl \in BOOLEAN : csvText = CsvFile(csvField, finalNl)
    /\ csvRows = NotYet

CsvParse ==
    /\ entry = "parseCsvToObjects"
    /\ csvRows = NotYet
    /\ csvRows' = parseCsvToObjects(csvText)
    /\ UNCHANGED <<entry, csvText, csvField, repVars, joinVars, otVars>>

NextCsv == CsvParse

SpecCsv == InitCsv /\ [][NextCsv]_vars

\* The one record the file of csvField stands for.
CsvExpectedRows == << [h \in {H, G} |-> IF h = H THEN csvField ELSE X] >>

\* C6: a field value written as a double-quoted CSV field with each inner
\* quote doubled parses back to exactly one record whose field equals the
\* original value (commas, quotes and newlines inside the quotes literal).
C6_QuotedFieldRoundTrips ==
    (entry = "parseCsvToObjects" /\ csvRows # NotYet) => csvRows = CsvExpectedRows

-----------------------------------------------------------------------------
(* JavaScript values                                                       *)
(*                                                                         *)
(* A primitive is [t, s, n]: t its type, s its characters (a string), n    *)
(* its value (a number).  An object is [t |-> "object", o |-> fields], an  *)
(* array [t |-> "array", a |-> elements].  Numbers are integers; NaN is a  *)
(* value of its own.                                                       *)

Undefined == [t |-> "undefined", s |-> EmptyStr, n |-> 0]
Null      == [t |-> "null",      s |-> EmptyStr, n |-> 0]
NaN       == [t |-> "nan",       s |-> EmptyStr, n |-> 0]
Num(k)    == [t |-> "number",    s |-> EmptyStr, n |-> k]
Str(cs)   == [t |-> "string",    s |-> cs,       n |-> 0]
Bool(b)   == [t |-> "boolean",   s |-> EmptyStr, n |-> IF b THEN 1 ELSE 0]
Obj(f)    == [t |-> "object", o |-> f]
Arr(e)    == [t |-> "array",  a |-> e]

\* An object with no own properties.
NoFields == [k \in {} |-> Undefined]

\* ToBoolean: what  ||  &&  ?:  and  if  test.
Truthy(v) ==
    CASE v.t \in {"undefined", "null", "nan"} -> FALSE
      [] v.t = "number"  -> v.n # 0
      [] v.t = "boolean" -> v.n = 1
      [] v.t = "string"  -> v.s # EmptyStr
      [] OTHER -> TRUE

\* a || b
OrJS(a, b) == IF Truthy(a) THEN a ELSE b

\* a ?? b
Nullish(v) == v.t \in {"undefined", "null"}
CoalesceJS(a, b) == IF Nullish(a) THEN b ELSE a

\* r[key] for r that is neither null nor undefined.  Strings and numbers
\* carry none of the keys the handlers read.
Get(r, key) ==
    IF r.t = "object" /\ key \in DOMAIN r.o THEN r.o[key] ELSE Undefined

\* r?.[key]
GetOpt(r, key) == IF Nullish(r) THEN Undefined ELSE Get(r, key)

Digits == <<"0", "1", "2", "3", "4", "5", "6", "7", "8", "9">>
IsDigit(c) == \E i \in 1..10 : Digits[i] = c
DigitVal(c) == (CHOOSE i \in 1..10 : Digits[i] = c) - 1

RECURSIVE DigitsValue(_, _)
DigitsValue(s, acc) ==
    IF s = EmptyStr THEN acc
    ELSE DigitsValue(Tail(s), acc * 10 + DigitVal(Head(s)))

AllDigits(s) == s # EmptyStr /\ \A i \in 1..Len(s) : IsDigit(s[i])

\* Number(s) for a string s: surrounding whitespace ignored, the empty
\* string is 0, an optionally signed run of decimal digits is its value,
\* anything else NaN.  (Fractions, exponents, hex and Infinity are outside
\* the alphabet the model draws strings from.)
NumberOfString(s) ==
    LET u == Trim(s) IN
    IF u = EmptyStr THEN Num(0)
    ELSE IF AllDigits(u) THEN Num(DigitsValue(u, 0))
    ELSE IF Head(u) = "-" /\ AllDigits(Tail(u)) THEN Num(0 - DigitsValue(Tail(u), 0))
    ELSE IF Head(u) = "+" /\ AllDigits(Tail(u)) THEN Num(DigitsValue(Tail(u), 0))
    ELSE NaN

\* Number(v)
NumberJS(v) ==
    CASE v.t = "number"    -> v
      [] v.t = "string"    -> NumberOfString(v.s)
      [] v.t = "null"      -> Num(0)
      [] v.t = "boolean"   -> Num(v.n)
      [] v.t = "array"     -> IF v.a = << >> THEN Num(0) ELSE NaN
      [] OTHER             -> NaN

RECURSIVE NatDigits(_)
NatDigits(k) ==
    IF k < 10 THEN <<Digits[k + 1]>> ELSE NatDigits(k \div 10) \o <<Digits[(k % 10) + 1]>>

ObjectObjectText == <<"[", "o", "b", "j", "e", "c", "t", " ", "O", "b", "j", "e", "c", "t", "]">>

\* String(v) for the values toNumber can be handed.
StringJS(v) ==
    CASE v.t = "string"  -> v.s
      [] v.t = "number"  -> IF v.n < 0 THEN <<"-">> \o NatDigits(0 - v.n) ELSE NatDigits(v.n)
      [] v.t = "boolean" -> IF v.n = 1 THEN <<"t", "r", "u", "e">> ELSE <<"f", "a", "l", "s", "e">>
      [] v.t = "nan"     -> <<"N", "a", "N">>
      [] v.t = "array"   -> EmptyStr
      [] OTHER           -> ObjectObjectText

\* s.replace(/[, ]/g, "")
RECURSIVE StripCommasSpaces(_)
StripCommasSpaces(s) ==
    IF s = EmptyStr THEN EmptyStr
    ELSE IF Head(s) \in {COMMA, SPACE} THEN StripCommasSpaces(Tail(s))
    ELSE <<Head(s)>> \o StripCommasSpaces(Tail(s))

\* toNumber (part_001:73-77; the same function at part_000:6-10 and
\* part_001:135-139).  The integers of the model are all finite.
toNumber(x) ==
    IF x = Undefined \/ x = Null \/ x = Str(EmptyStr) THEN Num(0)
    ELSE LET n == NumberOfString(StripCommasSpaces(StringJS(x))) IN
         IF n.t = "number" THEN n ELSE Num(0)

UpperLetters == <<"A", "B", "C", "D", "E", "F", "G", "H", "I", "J", "K", "L", "M", "N", "O", "P", "Q", "R", "S", "T", "U", "V", "W", "X", "Y", "Z">>
LowerLetters == <<"a", "b", "c", "d", "e", "f", "g", "h", "i", "j", "k", "l", "m", "n", "o", "p", "q", "r", "s", "t", "u", "v", "w", "x", "y", "z">>

LowerChar(c) ==
    IF \E i \in 1..26 : UpperLetters[i] = c
    THEN LowerLetters[CHOOSE i \in 1..26 : UpperLetters[i] = c]
    ELSE c

\* s.toLowerCase()
ToLowerCase(s) == [i \in 1..Len(s) |-> LowerChar(s[i])]

\* s.includes(p)
Includes(s, p) ==
    \E i \in 0..(Len(s) - Len(p)) : \A j \in 1..Len(p) : s[i + j] = p[j]

-----------------------------------------------------------------------------
(* Field names the report handlers read                                    *)

K_Item == <<"I", "t", "e", "m">>
K_SKU == <<"S", "K", "U">>
K_ItemSKU == <<"I", "t", "e", "m", " ", "(", "S", "K", "U", ")">>
K_ItemName == <<"I", "t", "e", "m", " ", "N", "a", "m", "e">>
K_Product == <<"P", "r", "o", "d", "u", "c", "t">>
K_LotSerial == <<"L", "o", "t", "/", "S", "e", "r", "i", "a", "l">>
K_LotSerial2 == <<"L", "o", "t", "S", "e", "r", "i", "a", "l">>
K_Serial == <<"S", "e", "r", "i", "a", "l">>
K_IMEI == <<"I", "M", "E", "I">>
K_LotSerial3 == <<"L", "o", "t", " ", "/", " ", "S", "e", "r", "i", "a", "l">>
K_ExpirationDate == <<"E", "x", "p", "i", "r", "a", "t", "i", "o", "n", " ", "D", "a", "t", "e">>
K_Expiry == <<"E", "x", "p", "i", "r", "y">>
K_Expire == <<"E", "x", "p", "i", "r", "e">>
K_Expiration == <<"E", "x", "p", "i", "r", "a", "t", "i", "o", "n">>
K_Qty == <<"Q", "t", "y">>
K_Quantity == <<"Q", "u", "a", "n", "t", "i", "t", "y">>
K_OnHand == <<"O", "n", " ", "H", "a", "n", "d">>
K_QtyOnHand == <<"Q", "t", "y", " ", "O", "n", " ", "H", "a", "n", "d">>
K_Cost == <<"C", "o", "s", "t">>
K_AvgCost == <<"A", "v", "g", " ", "C", "o", "s", "t">>
K_UnitCost == <<"U", "n", "i", "t", " ", "C", "o", "s", "t">>
K_Bin == <<"B", "i", "n">>
K_Location == <<"L", "o", "c", "a", "t", "i", "o", "n">>
K_BinLocation == <<"B", "i", "n", " ", "L", "o", "c", "a", "t", "i", "o", "n">>
K_Loc == <<"L", "o", "c">>


-----------------------------------------------------------------------------
(* JSON.parse, for texts made of arrays, objects, strings without escapes, *)
(* integers and the literals null, true and false, with optional           *)
(* whitespace between tokens.  A text that is not JSON makes it throw      *)
(* (ok = FALSE).  Backslash escapes, fractions and exponents are outside   *)
(* the alphabet the model draws bodies from.                               *)

JFail == [ok |-> FALSE, v |-> Undefined, i |-> 0]
JOk(v, i) == [ok |-> TRUE, v |-> v, i |-> i]

JsonWhitespace == {SPACE, NL, CR, TAB}

RECURSIVE SkipWs(_, _)
SkipWs(s, i) ==
    IF i <= Len(s) /\ s[i] \in JsonWhitespace THEN SkipWs(s, i + 1) ELSE i

\* obj[k] = v
Put(f, k, v) == [x \in (DOMAIN f) \cup {k} |-> IF x = k THEN v ELSE f[x]]

\* The characters after an opening quote, up to the closing one.
RECURSIVE JString(_, _, _)
JString(s, i, acc) ==
    IF i > Len(s) THEN JFail
    ELSE IF s[i] = QUOTE THEN JOk(Str(acc), i + 1)
    ELSE IF s[i] \in {NL, CR, TAB, "\\"} THEN JFail
    ELSE JString(s, i + 1, Append(acc, s[i]))

RECURSIVE DigitRunEnd(_, _)
DigitRunEnd(s, i) ==
    IF i <= Len(s) /\ IsDigit(s[i]) THEN DigitRunEnd(s, i + 1) ELSE i

\* -? ( 0 | [1-9][0-9]* )
JNumber(s, i) ==
    LET neg == s[i] = "-"
        j   == IF neg THEN i + 1 ELSE i
    IN  IF j > Len(s) \/ ~IsDigit(s[j]) THEN JFail
        ELSE LET e == IF s[j] = "0" THEN j + 1 ELSE DigitRunEnd(s, j)
                 k == DigitsValue(SubSeq(s, j, e - 1), 0)
             IN  JOk(Num(IF neg THEN 0 - k ELSE k), e)

JLiteral(s, i, word, v) ==
    IF i + Len(word) - 1 <= Len(s) /\ SubSeq(s, i, i + Len(word) - 1) = word
    THEN JOk(v, i + Len(word))
    ELSE JFail

RECURSIVE JValue(_, _)
RECURSIVE JElems(_, _, _)
RECURSIVE JMembers(_, _, _)

\* One value starting at s[i] (whitespace already skipped).
JValue(s, i) ==
    IF i > Len(s) THEN JFail
    ELSE LET c == s[i] IN
         IF c = "[" THEN
            LET j == SkipWs(s, i + 1) IN
            IF j <= Len(s) /\ s[j] = "]" THEN JOk(Arr(<< >>), j + 1)
            ELSE JElems(s, j, << >>)
         ELSE IF c = "{" THEN
            LET j == SkipWs(s, i + 1) IN
            IF j <= Len(s) /\ s[j] = "}" THEN JOk(Obj(NoFields), j + 1)
            ELSE JMembers(s, j, NoFields)
         ELSE IF c = QUOTE THEN JString(s, i + 1, EmptyStr)
         ELSE IF c = "-" \/ IsDigit(c) THEN JNumber(s, i)
         ELSE IF c = "n" THEN JLiteral(s, i, <<"n", "u", "l", "l">>, Null)
         ELSE IF c = "t" THEN JLiteral(s, i, <<"t", "r", "u", "e">>, Bool(TRUE))
         ELSE IF c = "f" THEN JLiteral(s, i, <<"f", "a", "l", "s", "e">>, Bool(FALSE))
         ELSE JFail

\* The elements of an array from s[i], acc being those before.
JElems(s, i, acc) ==
    LET r == JValue(s, i) IN
    IF ~r.ok THEN JFail
    ELSE LET j == SkipWs(s, r.i) IN
         IF j > Len(s) THEN JFail
         ELSE IF s[j] = "]" THEN JOk(Arr(Append(acc, r.v)), j + 1)
         ELSE IF s[j] = COMMA THEN JElems(s, SkipWs(s, j + 1), Append(acc, r.v))
         ELSE JFail

\* The members of an object from s[i], acc being those before; a repeated
\* key keeps its last value.
JMembers(s, i, acc) ==
    IF i > Len(s) \/ s[i] # QUOTE THEN JFail
    ELSE LET k == JString(s, i + 1, EmptyStr) IN
         IF ~k.ok THEN JFail
         ELSE LET j == SkipWs(s, k.i) IN
              IF j > Len(s) \/ s[j] # ":" THEN JFail
              ELSE LET r == JValue(s, SkipWs(s, j + 1)) IN
                   IF ~r.ok THEN JFail
                   ELSE LET e == SkipWs(s, r.i) IN
                        IF e > Len(s) THEN JFail
                        ELSE IF s[e] = "}" THEN JOk(Obj(Put(acc, k.v.s, r.v)), e + 1)
                        ELSE IF s[e] = COMMA
                             THEN JMembers(s, SkipWs(s, e + 1), Put(acc, k.v.s, r.v))
                             ELSE JFail

\* JSON.parse(text): ok = FALSE stands for the SyntaxError it throws.
JSONparse(text) ==
    LET r == JValue(text, SkipWs(text, 1)) IN
    IF r.ok /\ SkipWs(text, r.i) > Len(text) THEN r ELSE JFail

-----------------------------------------------------------------------------
(* The report handlers: part_000:12-58 (format chosen from the URL or a    *)
(* comma in the body), part_001:79-128 (JSON first, then the CSV parser    *)
(* above) and part_001:141-208 (csv-parse only).                           *)

\* The alias chains of the normalisation, in the order the code reads them.
ItemAliases       == <<K_Item, K_SKU, K_ItemSKU, K_ItemName, K_Product>>
SerialAliases     == <<K_LotSerial, K_LotSerial2, K_Serial, K_IMEI, K_LotSerial3>>
ExpirationAliases == <<K_ExpirationDate, K_Expiry, K_Expiration>>
ExpirationAliasesWithExpire == <<K_ExpirationDate, K_Expiry, K_Expire, K_Expiration>>
QtyAliases        == <<K_Qty, K_Quantity, K_OnHand, K_QtyOnHand>>
CostAliases       == <<K_Cost, K_AvgCost, K_UnitCost>>
BinAliases        == <<K_Bin, K_Location, K_BinLocation, K_Loc>>

\* r[a1] || r[a2] || ... || r[an]
RECURSIVE OrChain(_, _)
OrChain(r, aliases) ==
    IF Len(aliases) = 1 THEN Get(r, aliases[1])
    ELSE OrJS(Get(r, Head(aliases)), OrChain(r, Tail(aliases)))

\* The chain left without its final || "".
OrChainUndefaulted(r, aliases) == OrChain(r, aliases)

\* r[a1] || ... || r[an] || ""
OrChainOrEmpty(r, aliases) == OrJS(OrChain(r, aliases), Str(EmptyStr))

\* The callback of rowsRaw.map (part_001:112-121, part_000:43-51,
\* part_001:170-200), for r neither null nor undefined.
normalizeRecord(r, expAliases) ==
    [ item       |-> OrChainOrEmpty(r, ItemAliases),
      serial     |-> OrChainOrEmpty(r, SerialAliases),
      expiration |-> OrChainOrEmpty(r, expAliases),
      qty        |-> toNumber(OrChain(r, QtyAliases)),
      cost       |-> toNumber(OrChain(r, CostAliases)),
      bin        |-> OrChainOrEmpty(r, BinAliases) ]

\* A thrown exception, as the value an operator returns.
Thrown(msg) == [threw |-> TRUE, msg |-> msg, v |-> << >>]
Returned(v) == [threw |-> FALSE, msg |-> "", v |-> v]

\* rowsRaw.map(callback): reading a property of a null element throws; a
\* value that is no array has no map method.
normalizeRows(rowsRaw, expAliases) ==
    IF rowsRaw.t # "array" THEN Thrown("TypeError: rowsRaw.map is not a function")
    ELSE IF \E i \in 1..Len(rowsRaw.a) : Nullish(rowsRaw.a[i])
    THEN Thrown("TypeError: cannot read properties of null")
    ELSE Returned([i \in 1..Len(rowsRaw.a) |-> normalizeRecord(rowsRaw.a[i], expAliases)])

\* The rows parseCsvToObjects returns, as JavaScript values.
CsvRowValues(rows) ==
    Arr([i \in 1..Len(rows) |-> Obj([h \in DOMAIN rows[i] |-> Str(rows[i][h])])])

\* r.ok
ResponseOk(status) == status \in 200..299

BodySnippetMax == 400

\* What a run of a handler did: the Authorization scheme of the request it
\* sent ("" when it sent none), the parsers it called, the arguments of
\* res.status(..).json(..).  keys are the keys of the JSON body.
Run(by, sent, parsers, status, keys, error, errStatus, body, rows) ==
    [ by |-> by, sent |-> sent, parsers |-> parsers, status |-> status, keys |-> keys,
      error |-> error, errStatus |-> errStatus, body |-> body, rows |-> rows ]

\* headers.Authorization (part_001:84-92)
ReportAuthorization(env) ==
    IF env.bearer THEN "Bearer" ELSE IF env.basic THEN "Basic" ELSE "none"

\* The part the three handlers share (part_001:80-100, part_000:13-33,
\* part_001:142-162): the missing URL, the fetch, the non-success status.
\* Returns the run, or "continue" with nothing decided yet.
Continue == [by |-> "continue"]

\* repRun before a handler has run.
NoRun == [by |-> "none"]

reportFetch(by, env, up) ==
    IF ~Truthy(env.url)
    THEN Run(by, "", {}, 500, {"error"}, "OT_REPORT_URL is not set", 0, EmptyStr, << >>)
    ELSE IF up.net = "rejects"
    THEN Run(by, ReportAuthorization(env), {}, 500, {"error"}, "fetch failed", 0, EmptyStr, << >>)
    ELSE IF ~ResponseOk(up.status)
    THEN LET t == IF up.textRejects THEN EmptyStr ELSE up.body IN
         Run(by, ReportAuthorization(env), {}, 502, {"error", "body"},
             "OrderTime fetch failed", up.status, SliceTo(t, BodySnippetMax), << >>)
    ELSE IF up.textRejects
    THEN Run(by, ReportAuthorization(env), {}, 500, {"error"}, "body read failed", 0, EmptyStr, << >>)
    ELSE Continue

\* The end of a handler: the normalisation and the 200, or the catch.
reportRespond(by, env, parsers, rowsRaw, expAliases) ==
    IF rowsRaw.threw
    THEN Run(by, ReportAuthorization(env), parsers, 500, {"error"}, rowsRaw.msg, 0, EmptyStr, << >>)
    ELSE LET n == normalizeRows(rowsRaw.v, expAliases) IN
         IF n.threw
         THEN Run(by, ReportAuthorization(env), parsers, 500, {"error"}, n.msg, 0, EmptyStr, << >>)
         ELSE Run(by, ReportAuthorization(env), parsers, 200, {"rows"}, "", 0, EmptyStr, n.v)

\* part_001:79-128: JSON first, the CSV parser when JSON.parse throws or
\* gives no array.
reportJsonFirst(env, up) ==
    LET f == reportFetch("jsonFirst", env, up) IN
    IF f # Continue THEN f
    ELSE LET j == JSONparse(up.body) IN
         IF j.ok /\ j.v.t = "array"
         THEN reportRespond("jsonFirst", env, {"JSON.parse"}, Returned(j.v), ExpirationAliases)
         ELSE reportRespond("jsonFirst", env, {"JSON.parse", "parseCsvToObjects"},
                            Returned(CsvRowValues(parseCsvToObjects(up.body))),
                            ExpirationAliases)

OutputCsv == <<"o", "u", "t", "p", "u", "t", "=", "c", "s", "v">>

\* part_000:38-40: the condition that sends the body to csv-parse.
TreatedAsCsv(env, raw) ==
    Includes(ToLowerCase(env.url.s), OutputCsv) \/ Includes(raw, <<COMMA>>)

\* What parse(raw, {columns: true, skip_empty_lines: true}) of the package
\* csv-parse may do: the package is not part of the repository, so the call
\* either throws or returns one of these row lists.
CsvParseOutcomes ==
    { Thrown("CsvError"),
      Returned(Arr(<< >>)),
      Returned(Arr(<< Obj([k \in {K_Item, K_Qty, K_Bin} |->
                             IF k = K_Item THEN Str(<<"W">>)
                             ELSE IF k = K_Qty THEN Str(<<"1", "0">>)
                             ELSE Str(<<"A", "1">>)]) >>)),
      Returned(Arr(<< Obj([k \in {H} |-> Str(<<"v">>)]) >>)) }

\* part_000:12-58, lib being what csv-parse does if it is called.
reportUrlHeuristic(env, up, lib) ==
    LET f == reportFetch("urlHeuristic", env, up) IN
    IF f # Continue THEN f
    ELSE IF TreatedAsCsv(env, up.body)
    THEN reportRespond("urlHeuristic", env, {"csv-parse"}, lib, ExpirationAliases)
    ELSE LET j == JSONparse(up.body) IN
         reportRespond("urlHeuristic", env, {"JSON.parse"},
                       IF j.ok THEN Returned(j.v) ELSE Thrown("SyntaxError"),
                       ExpirationAliases)

\* part_001:141-208
reportCsvOnly(env, up, lib) ==
    LET f == reportFetch("csvOnly", env, up) IN
    IF f # Continue THEN f
    ELSE reportRespond("csvOnly", env, {"csv-parse"}, lib, ExpirationAliasesWithExpire)

-----------------------------------------------------------------------------
(* SpecReport: one request to a report handler                              *)

BodyEmpty == <<>>
BodyEmptyArray == <<"[", "]">>
BodyNullElement == <<"[", "n", "u", "l", "l", "]">>
BodyWidgetJson == <<"[", "{", "\"", "I", "t", "e", "m", "\"", ":", "\"", "W", "i", "d", "g", "e", "t", "\"", ",", "\"", "Q", "t", "y", "\"", ":", "1", "0", ",", "\"", "B", "i", "n", "\"", ":", "\"", "A", "1", "\"", "}", "]">>
BodyEmptyObject == <<"[", "{", "}", "]">>
BodySkuJson == <<"[", "{", "\"", "S", "K", "U", "\"", ":", "\"", "S", "\"", ",", "\"", "Q", "u", "a", "n", "t", "i", "t", "y", "\"", ":", "\"", "1", ",", "2", "3", "4", "\"", ",", "\"", "C", "o", "s", "t", "\"", ":", "\"", "2", "\"", ",", "\"", "E", "x", "p", "i", "r", "e", "\"", ":", "\"", "E", "\"", "}", "]">>
BodyNotArray == <<"{", "\"", "r", "o", "w", "s", "\"", ":", "[", "]", "}">>
BodyNumber == <<"5">>
BodyNumberElement == <<"[", "1", ",", " ", "2", "]">>
BodyWidgetCsv == <<"I", "t", "e", "m", ",", "Q", "t", "y", ",", "B", "i", "n", "\n", "W", "i", "d", "g", "e", "t", ",", "1", "0", ",", "A", "1", "\n">>
BodyGarbage == <<"a", "b", "c">>
BodyNoAliasCsv == <<"H", ",", "L", "o", "t", "/", "S", "e", "r", "i", "a", "l", "\r", "\n", "v", "\r", "\n">>
BodyQtyCsv == <<"Q", "t", "y", ",", "C", "o", "s", "t", ",", "L", "o", "c", "\n", "\"", "1", ",", "2", "3", "4", "\"", ",", "x", ",", "L", "1">>

OkBodies ==
    { BodyEmpty, BodyEmptyArray, BodyNullElement, BodyWidgetJson, BodyEmptyObject,
      BodySkuJson, BodyNotArray, BodyNumber, BodyNumberElement, BodyWidgetCsv,
      BodyGarbage, BodyNoAliasCsv, BodyQtyCsv }

\* How far past the 400 characters of the snippet an error body may run.
MaxBodyExcess == 2

\* An error body of n characters, no two neighbours alike.
ErrorBody(n) == [i \in 1..n |-> Digits[(i % 10) + 1]]

ErrorBodies ==
    {ErrorBody(n) : n \in {0, 1, BodySnippetMax - 1} \cup
                          (BodySnippetMax..(BodySnippetMax + MaxBodyExcess))}

UrlPlain   == Str(<<"h", "t", "t", "p", "s", ":", "/", "/", "o", "t", "/", "r", "e", "p", "o", "r", "t">>)
UrlCsv     == Str(<<"h", "t", "t", "p", "s", ":", "/", "/", "o", "t", "/", "r", "e", "p", "o", "r", "t", "?", "o", "u", "t", "p", "u", "t", "=", "c", "s", "v">>)
UrlCsvCaps == Str(<<"h", "t", "t", "p", "s", ":", "/", "/", "o", "t", "/", "r", "e", "p", "o", "r", "t", "?", "O", "u", "t", "p", "u", "t", "=", "C", "S", "V">>)

ReportEnvs ==
    [ url : {Undefined, UrlPlain, UrlCsv, UrlCsvCaps},
      bearer : BOOLEAN, basic : BOOLEAN ]

Upstreams ==
    {[net |-> "rejects", status |-> 0, body |-> EmptyStr, textRejects |-> FALSE]}
    \cup [net : {"responds"}, status : {300, 404, 500}, body : ErrorBodies,
          textRejects : BOOLEAN]
    \cup [net : {"responds"}, status : {200, 299}, body : OkBodies,
          textRejects : BOOLEAN]

InitReport ==
    /\ entry = "report"
    /\ OtIdle
    /\ CsvIdle
    /\ JoinIdle
    /\ repEnv \in ReportEnvs
    /\ upstream \in Upstreams
    /\ repRun = NoRun

HandleJsonFirst ==
    /\ entry = "report"
    /\ repRun = NoRun
    /\ repRun' = reportJsonFirst(repEnv, upstream)
    /\ UNCHANGED <<entry, repEnv, upstream, csvVars, joinVars, otVars>>

HandleUrlHeuristic ==
    /\ entry = "report"
    /\ repRun = NoRun
    /\ \E lib \in CsvParseOutcomes : repRun' = reportUrlHeuristic(repEnv, upstream, lib)
    /\ UNCHANGED <<entry, repEnv, upstream, csvVars, joinVars, otVars>>

HandleCsvOnly ==
    /\ entry = "report"
    /\ repRun = NoRun
    /\ \E lib \in CsvParseOutcomes : repRun' = reportCsvOnly(repEnv, upstream, lib)
    /\ UNCHANGED <<entry, repEnv, upstream, csvVars, joinVars, otVars>>

NextReport == HandleJsonFirst \/ HandleUrlHeuristic \/ HandleCsvOnly

SpecReport == InitReport /\ [][NextReport]_vars

\* A handler has run against a configured URL that answered.
ReportAnswered ==
    /\ entry = "report"
    /\ repRun # NoRun
    /\ Truthy(repEnv.url)
    /\ upstream.net = "responds"

\* C8: for a body returned with a success status the JSON-first handler
\* calls JSON.parse first, falls back to parseCsvToObjects when that throws
\* or yields no array, and answers 200 with { rows }, never an error.
\* (Stated for the handler of part_001:79-128, the one that tries JSON
\* first; the handlers of part_000 and part_001:141-208 answer 500 whenever
\* JSON.parse or csv-parse throws.)
C8_ParseFailuresNeverSurface ==
    ( /\ ReportAnswered
      /\ repRun.by = "jsonFirst"
      /\ ResponseOk(upstream.status)
      /\ ~upstream.textRejects )
    => /\ "JSON.parse" \in repRun.parsers
       /\ repRun.status = 200
       /\ repRun.keys = {"rows"}

\* C9: a non-success status of the source URL gives 502, an error carrying
\* the upstream status, a body that is the first at most 400 characters of
\* the upstream body (empty when it cannot be read), no rows, and no parser
\* is called.
C9_FetchFailureIs502 ==
    (ReportAnswered /\ ~ResponseOk(upstream.status))
    => LET t == IF upstream.textRejects THEN EmptyStr ELSE upstream.body IN
       /\ repRun.status = 502
       /\ repRun.keys = {"error", "body"}
       /\ repRun.error = "OrderTime fetch failed"
       /\ repRun.errStatus = upstream.status
       /\ Len(repRun.body) = (IF Len(t) < 400 THEN Len(t) ELSE 400)
       /\ \A i \in 1..Len(repRun.body) : repRun.body[i] = t[i]
       /\ repRun.rows = << >>
       /\ repRun.parsers = {}

\* A 502 whose body was cut: the upstream body was longer than 400.
C9_Witness ==
    /\ ReportAnswered
    /\ ~ResponseOk(upstream.status)
    /\ ~upstream.textRejects
    /\ Len(upstream.body) > 400
    /\ repRun.status = 502
    /\ Len(repRun.body) = 400

-----------------------------------------------------------------------------
(* The live handler, from the records the four listings returned to the    *)
(* response (part_002:88-91, 102-138).  The records of the live pipeline   *)
(* are objects whose keys are written as TLA+ strings.                     *)

ITEM_COST_FIELDS == <<"LastPurchaseCost", "AverageCost", "StandardCost">>

\* a <= b on numbers; any comparison with NaN is false.
LeqJS(a, b) == a.t = "number" /\ b.t = "number" /\ a.n <= b.n

\* firstCost (part_002:67-72)
RECURSIVE firstCostLoop(_, _)
firstCostLoop(rec, fields) ==
    IF fields = << >> THEN Null
    ELSE IF Truthy(rec) /\ ~Nullish(Get(rec, Head(fields)))
         THEN NumberJS(Get(rec, Head(fields)))
         ELSE firstCostLoop(rec, Tail(fields))

firstCost(rec) == firstCostLoop(rec, ITEM_COST_FIELDS)

\* new Map(list.map(l => [l.Id, l])).get(id): the last record with that Id.
MapGet(list, id) ==
    LET hits == {i \in 1..Len(list) : Get(list[i], "Id") = id} IN
    IF hits = {} THEN Undefined
    ELSE list[CHOOSE i \in hits : \A j \in hits : j <= i]

\* id ? byId.get(id) : null   (part_002:116-118)
Lookup(list, id) == IF Truthy(id) THEN MapGet(list, id) ELSE Null

\* r?.XRef?.Id ?? r?.XId   (part_002:112-114)
RefId(r, ref, flat) == CoalesceJS(GetOpt(GetOpt(r, ref), "Id"), GetOpt(r, flat))

\* Number(url.searchParams.get("qtygt") ?? "0")   (part_002:91)
QtyGt(q) == NumberJS(CoalesceJS(q.qtygt, Str(<<"0">>)))

\* Number(r.OnHand ?? r.Qty ?? 0)   (part_002:109)
ResolveQty(r) ==
    NumberJS(CoalesceJS(CoalesceJS(Get(r, "OnHand"), Get(r, "Qty")), Num(0)))

\* qty <= qtygt, the test that skips a balance (part_002:110)
QtySkips(qty, qtygt) == LeqJS(qty, qtygt)

\* The object literal with the serial chain left without its final || "".
JoinRowSerialUndefaulted(qty, lot, item, bin) ==
    [ item       |-> OrJS(OrJS(GetOpt(item, "Name"), GetOpt(item, "ItemName")), Str(EmptyStr)),
      serial     |-> OrJS(OrJS(GetOpt(lot, "LotOrSerialNumber"), GetOpt(lot, "Serial")),
                          GetOpt(lot, "IMEI")),
      expiration |-> OrJS(OrJS(GetOpt(lot, "ExpirationDate"), GetOpt(lot, "Expiry")),
                          Str(EmptyStr)),
      qty        |-> qty,
      cost       |-> firstCost(item),
      bin        |-> OrJS(GetOpt(bin, "Name"), Str(EmptyStr)) ]

\* The object literal of part_002:120-127.
JoinRow(qty, lot, item, bin) ==
    [ item       |-> OrJS(OrJS(GetOpt(item, "Name"), GetOpt(item, "ItemName")), Str(EmptyStr)),
      serial     |-> OrJS(OrJS(OrJS(GetOpt(lot, "LotOrSerialNumber"), GetOpt(lot, "Serial")),
                               GetOpt(lot, "IMEI")), Str(EmptyStr)),
      expiration |-> OrJS(OrJS(GetOpt(lot, "ExpirationDate"), GetOpt(lot, "Expiry")),
                          Str(EmptyStr)),
      qty        |-> qty,
      cost       |-> firstCost(item),
      bin        |-> OrJS(GetOpt(bin, "Name"), Str(EmptyStr)) ]

\* binPrefix && row.bin && !row.bin.startsWith(binPrefix)   (part_002:129),
\* for a row.bin that is a string or falsy.
BinPrefixSkips(q, row) ==
    /\ Truthy(q.binPrefix)
    /\ Truthy(row.bin)
    /\ ~StartsWith(row.bin.s, q.binPrefix.s)

\* location && r?.LocationRef?.Name && r.LocationRef.Name !== location
LocationSkips(q, r) ==
    /\ Truthy(q.location)
    /\ Truthy(GetOpt(GetOpt(r, "LocationRef"), "Name"))
    /\ GetOpt(GetOpt(r, "LocationRef"), "Name") # q.location

\* One iteration of the loop of part_002:108-133 for a balance r: what it
\* does ("throws", "skips", "pushes") and the row it built.
JoinStep(r, q, lotList, itemList, binList) ==
    IF Nullish(r) THEN [does |-> "throws", row |-> JoinRow(NaN, Null, Null, Null)]
    ELSE LET qty == ResolveQty(r)
             row == JoinRow(qty,
                            Lookup(lotList,  RefId(r, "LotOrSerialRef", "LotOrSerialId")),
                            Lookup(itemList, RefId(r, "ItemRef", "ItemId")),
                            Lookup(binList,  RefId(r, "BinRef", "BinId")))
         IN  IF QtySkips(qty, QtyGt(q)) THEN [does |-> "skips", row |-> row]
             ELSE IF Truthy(q.binPrefix) /\ Truthy(row.bin) /\ row.bin.t # "string"
             THEN [does |-> "throws", row |-> row]
             ELSE IF BinPrefixSkips(q, row) THEN [does |-> "skips", row |-> row]
             ELSE IF LocationSkips(q, r) THEN [does |-> "skips", row |-> row]
             ELSE [does |-> "pushes", row |-> row]

\* rows after the loop over inv[i..], rows being those pushed before.
RECURSIVE JoinLoop(_, _, _, _, _, _, _)
\* The loop with rows.unshift(row) for rows.push(row).
JoinLoopUnshifting(inv, i, rows, q, lotList, itemList, binList) ==
    IF i > Len(inv) THEN rows
    ELSE LET st == JoinStep(inv[i], q, lotList, itemList, binList) IN
         JoinLoop(inv, i + 1, IF st.does = "pushes" THEN <<st.row>> \o rows ELSE rows,
                  q, lotList, itemList, binList)

JoinLoop(inv, i, rows, q, lotList, itemList, binList) ==
    IF i > Len(inv) THEN rows
    ELSE LET st == JoinStep(inv[i], q, lotList, itemList, binList) IN
         JoinLoop(inv, i + 1, IF st.does = "pushes" THEN Append(rows, st.row) ELSE rows,
                  q, lotList, itemList, binList)

\* A response of the live handler: res.status(status).json(body).
LiveResponse(status, keys, error, rows) ==
    [status |-> status, keys |-> keys, error |-> error, rows |-> rows]

HasNull(list) == \E i \in 1..Len(list) : Nullish(list[i])

\* part_002:102-138: the three Maps, the loop, the 200; the catch turns
\* any exception into the 500.
handlerJoin(inv, lotList, itemList, binList, q) ==
    IF HasNull(lotList) \/ HasNull(itemList) \/ HasNull(binList)
    THEN LiveResponse(500, {"error"}, "TypeError: cannot read properties of null", << >>)
    ELSE IF \E i \in 1..Len(inv) :
               JoinStep(inv[i], q, lotList, itemList, binList).does = "throws"
    THEN LiveResponse(500, {"error"}, "TypeError", << >>)
    ELSE LiveResponse(200, {"rows"}, "",
                      JoinLoop(inv, 1, << >>, q, lotList, itemList, binList))

-----------------------------------------------------------------------------
(* SpecJoin: the live handler from the moment the four listings have       *)
(* resolved.  The records are drawn from small pools.                       *)

\* The longest inventory list drawn.
MaxBalances == 3

\* { Id: id }, or no reference object when id is undefined.
RefObj(id) == IF id = Undefined THEN Undefined ELSE Obj("Id" :> id)

\* A balance: OnHand, Qty, the lot, item and bin ids each as <<nested, flat>>,
\* and LocationRef.Name.  A key whose value is Undefined reads as absent.
Balance(onHand, qtyField, lot, item, bin, loc) ==
    Obj( "OnHand" :> onHand @@ "Qty" :> qtyField
      @@ "LotOrSerialRef" :> RefObj(lot[1]) @@ "LotOrSerialId" :> lot[2]
      @@ "ItemRef" :> RefObj(item[1]) @@ "ItemId" :> item[2]
      @@ "BinRef" :> RefObj(bin[1]) @@ "BinId" :> bin[2]
      @@ "LocationRef" :> (IF loc = Undefined THEN Undefined ELSE Obj("Name" :> loc)) )

Nested(k) == <<Num(k), Undefined>>
Flat(k)   == <<Undefined, Num(k)>>
NoRef     == <<Undefined, Undefined>>

\* <<OnHand, Qty>>: 6, 5, 0, neither, null then "6", and a non-numeric string.
QtySources ==
    { <<Num(6), Undefined>>, <<Num(5), Undefined>>, <<Num(0), Undefined>>,
      <<Undefined, Undefined>>, <<Null, Str(<<"6">>)>>,
      <<Str(<<"a", "b", "c">>), Undefined>> }

\* <<lot, item, bin>>: ids 1 and 2 are in the dictionaries below, 9 is in
\* none, bin 3 is named in lower case, bin 4 has no name.
RefTriples ==
    { <<Nested(1), Nested(1), Nested(1)>>,
      <<Flat(2), Flat(2), Flat(2)>>,
      <<NoRef, NoRef, NoRef>>,
      <<Nested(9), Nested(1), Nested(1)>>,
      <<Nested(1), Nested(9), Nested(1)>>,
      <<Nested(1), Nested(1), Flat(9)>>,
      <<Nested(1), Nested(1), Nested(3)>>,
      <<Nested(1), Flat(2), Nested(4)>> }

LocationNames == {Str(<<"P">>), Str(<<"Q">>)}

\* One balance per value of each of the three parts, the others held at
\* quantity 6, ids 1 and no location; the record {}; and a null record.
Balances ==
    {Balance(qs[1], qs[2], Nested(1), Nested(1), Nested(1), Undefined) : qs \in QtySources}
    \cup {Balance(Num(6), Undefined, t[1], t[2], t[3], Undefined) : t \in RefTriples}
    \cup {Balance(Num(6), Undefined, Nested(1), Nested(1), Nested(1), l) : l \in LocationNames}
    \cup {Balance(Undefined, Undefined, NoRef, NoRef, NoRef, Undefined)}
    \cup {Null}

\* The balances the longer lists are made of: one that is joined in full,
\* one of quantity 5, one whose ids are flat, one whose bin is unknown.
CoreBalances ==
    { Balance(Num(6), Undefined, Nested(1), Nested(1), Nested(1), Undefined),
      Balance(Num(5), Undefined, Nested(1), Nested(1), Nested(1), Undefined),
      Balance(Num(6), Undefined, Flat(2), Flat(2), Flat(2), Undefined),
      Balance(Num(6), Undefined, Nested(1), Nested(1), Flat(9), Undefined) }

\* Every balance alone, and the lists of core balances.
InventoryLists == SeqsUpTo(Balances, 1) \cup SeqsUpTo(CoreBalances, MaxBalances)

Lot1    == Obj("Id" :> Num(1) @@ "LotOrSerialNumber" :> Str(<<"S", "1">>)
               @@ "ExpirationDate" :> Str(<<"E", "1">>))
Lot2    == Obj("Id" :> Num(2) @@ "Serial" :> Str(<<"S", "2">>) @@ "Expiry" :> Str(<<"E", "2">>))
Lot1Dup == Obj("Id" :> Num(1) @@ "IMEI" :> Str(<<"S", "3">>))

Item1 == Obj("Id" :> Num(1) @@ "Name" :> Str(<<"N", "1">>) @@ "LastPurchaseCost" :> Num(7))
Item2 == Obj("Id" :> Num(2) @@ "ItemName" :> Str(<<"N", "2">>)
             @@ "LastPurchaseCost" :> Null @@ "AverageCost" :> Str(<<"8">>))
Item1NoCost == Obj("Id" :> Num(1) @@ "Name" :> Str(<<"N", "3">>))

Bin1 == Obj("Id" :> Num(1) @@ "Name" :> Str(<<"C", "1">>))
Bin2 == Obj("Id" :> Num(2) @@ "Name" :> Str(<<"D", "1">>))
Bin3 == Obj("Id" :> Num(3) @@ "Name" :> Str(<<"c", "1">>))
Bin4 == Obj("Id" :> Num(4))
Bin1Numeric == Obj("Id" :> Num(1) @@ "Name" :> Num(5))

\* The dictionaries a request may see.
Dictionaries ==
    { [lots |-> <<Lot1, Lot2>>, items |-> <<Item1, Item2>>, bins |-> <<Bin1, Bin2, Bin3, Bin4>>],
      [lots |-> <<Lot1, Lot1Dup>>, items |-> <<Item1NoCost, Item2>>, bins |-> <<Bin2, Bin3>>],
      [lots |-> << >>, items |-> <<Null>>, bins |-> <<Bin1>>],
      [lots |-> <<Lot2>>, items |-> << >>, bins |-> <<Bin1Numeric, Bin2>>] }

\* searchParams.get gives null for a parameter that is absent.
Queries ==
    [ location  : {Null, Str(<<"P">>)},
      binPrefix : {Null, Str(EmptyStr), Str(<<"C">>)},
      qtygt     : {Null, Str(<<"5">>), Str(<<"-", "1">>), Str(<<"a", "b", "c">>)} ]

NoResponse == << >>

InitJoin ==
    /\ entry = "liveJoin"
    /\ OtIdle
    /\ CsvIdle
    /\ RepIdle
    /\ query \in Queries
    /\ invBalances \in InventoryLists
    /\ \E d \in Dictionaries : lots = d.lots /\ items = d.items /\ bins = d.bins
    /\ liveRes = NoResponse

\* part_002:102-138
HandleJoin ==
    /\ entry = "liveJoin"
    /\ liveRes = NoResponse
    /\ liveRes' = <<handlerJoin(invBalances, lots, items, bins, query)>>
    /\ UNCHANGED <<entry, query, invBalances, lots, items, bins, csvVars, repVars, otVars>>

NextJoin == HandleJoin

SpecJoin == InitJoin /\ [][NextJoin]_vars

\* The live handler has answered 200.
JoinAnswered200 ==
    /\ entry = "liveJoin"
    /\ liveRes # NoResponse
    /\ liveRes[1].status = 200

\* a > b on numbers; false when either is NaN.
StrictlyGreater(a, b) == a.t = "number" /\ b.t = "number" /\ a.n > b.n

\* The balances of the request that are objects.
BalanceIndices == {i \in 1..Len(invBalances) : ~Nullish(invBalances[i])}

StepOf(i) == JoinStep(invBalances[i], query, lots, items, bins)

\* C3: a balance produces a row only if its resolved quantity is strictly
\* greater than qtygt (0 when the parameter is absent): every row of a 200
\* response has a quantity above the threshold, and every balance whose
\* quantity is not above it yields no row.
C3_RowsExceedThreshold ==
    JoinAnswered200 =>
        /\ \A k \in 1..Len(liveRes[1].rows) :
              StrictlyGreater(liveRes[1].rows[k].qty, QtyGt(query))
        /\ \A i \in BalanceIndices :
              ~StrictlyGreater(ResolveQty(invBalances[i]), QtyGt(query))
                 => StepOf(i).does # "pushes"

\* C5: when binPrefix is supplied, every row of the 200 response has a bin
\* that starts with binPrefix (case-sensitive), and every balance that
\* passes the quantity and location filters and whose resolved bin name
\* starts with binPrefix is in the response.
C5_BinPrefixFilter ==
    (JoinAnswered200 /\ query.binPrefix # Null) =>
        /\ \A k \in 1..Len(liveRes[1].rows) :
              liveRes[1].rows[k].bin.t = "string"
                 => StartsWith(liveRes[1].rows[k].bin.s, query.binPrefix.s)
        /\ \A i \in BalanceIndices :
              ( /\ ~QtySkips(ResolveQty(invBalances[i]), QtyGt(query))
                /\ ~LocationSkips(query, invBalances[i])
                /\ StepOf(i).row.bin.t = "string"
                /\ StartsWith(StepOf(i).row.bin.s, query.binPrefix.s) )
              => StepOf(i).does = "pushes"

\* The ids a balance refers to.
LotIdOf(i)  == RefId(invBalances[i], "LotOrSerialRef", "LotOrSerialId")
ItemIdOf(i) == RefId(invBalances[i], "ItemRef", "ItemId")
BinIdOf(i)  == RefId(invBalances[i], "BinRef", "BinId")

\* An id that is absent, or that is not a key of the index built from list.
IdMissing(list, id) == id = Undefined \/ (Truthy(id) /\ MapGet(list, id) = Undefined)

\* rec as the index would hold it under id.
WithId(rec, id) == Obj(Put(rec.o, "Id", id))

LotPool  == {Lot1, Lot2, Lot1Dup}
ItemPool == {Item1, Item2, Item1NoCost}
BinPool  == {Bin1, Bin2, Bin3, Bin4}

\* The number of rows pushed by the balances 1..i.
PushRank(i) == Cardinality({j \in 1..i : StepOf(j).does = "pushes"})

\* No cause of an exception other than a missing entity: the lists hold
\* objects only and every bin that is found has a string name or none.
NoOtherErrorCause ==
    /\ ~HasNull(lots) /\ ~HasNull(items) /\ ~HasNull(bins)
    /\ \A i \in 1..Len(invBalances) : ~Nullish(invBalances[i])
    /\ \A i \in 1..Len(bins) : Get(bins[i], "Name").t \in {"string", "undefined"}

\* C4: a balance whose lot, item or bin id is absent or not a key of its
\* index never causes an error; its row is built with the missing entity's
\* fields empty (serial and expiration "", item "" and cost null, bin "")
\* and with the other fields and qty as they are when the entity is found;
\* the response is the 200 holding the rows of the balances that pass the
\* filters, in order.
C4_MissingEntityGivesEmptyFields ==
    (entry = "liveJoin" /\ liveRes # NoResponse) =>
        /\ NoOtherErrorCause => liveRes[1].status = 200
        /\ liveRes[1].status = 200 =>
              /\ Len(liveRes[1].rows) = PushRank(Len(invBalances))
              /\ \A i \in BalanceIndices :
                    StepOf(i).does = "pushes" => liveRes[1].rows[PushRank(i)] = StepOf(i).row
        /\ \A i \in BalanceIndices :
              LET st == StepOf(i) IN
              /\ IdMissing(lots, LotIdOf(i)) =>
                    /\ st.row.serial = Str(EmptyStr)
                    /\ st.row.expiration = Str(EmptyStr)
                    /\ \A l \in LotPool :
                          LET found == JoinStep(invBalances[i], query,
                                                Append(lots, WithId(l, LotIdOf(i))), items, bins)
                          IN  /\ found.does = st.does
                              /\ found.row.item = st.row.item
                              /\ found.row.cost = st.row.cost
                              /\ found.row.bin = st.row.bin
                              /\ found.row.qty = st.row.qty
              /\ IdMissing(items, ItemIdOf(i)) =>
                    /\ st.row.item = Str(EmptyStr)
                    /\ st.row.cost = Null
                    /\ \A it \in ItemPool :
                          LET found == JoinStep(invBalances[i], query, lots,
                                                Append(items, WithId(it, ItemIdOf(i))), bins)
                          IN  /\ found.does = st.does
                              /\ found.row.serial = st.row.serial
                              /\ found.row.expiration = st.row.expiration
                              /\ found.row.bin = st.row.bin
                              /\ found.row.qty = st.row.qty
              /\ IdMissing(bins, BinIdOf(i)) =>
                    /\ st.row.bin = Str(EmptyStr)
                    /\ st.does # "throws"
                    /\ \A b \in BinPool :
                          LET found == JoinStep(invBalances[i], query, lots, items,
                                                Append(bins, WithId(b, BinIdOf(i))))
                          IN  /\ found.does = "pushes" => st.does = "pushes"
                              /\ found.row.item = st.row.item
                              /\ found.row.serial = st.row.serial
                              /\ found.row.expiration = st.row.expiration
                              /\ found.row.cost = st.row.cost
                              /\ found.row.qty = st.row.qty

\* A 200 response with the row of a balance whose lot id is in no index,
\* whose item and bin were found.
C4_Witness ==
    /\ JoinAnswered200
    /\ \E i \in BalanceIndices :
          /\ Truthy(LotIdOf(i))
          /\ MapGet(lots, LotIdOf(i)) = Undefined
          /\ StepOf(i).does = "pushes"
          /\ liveRes[1].rows[PushRank(i)].serial = Str(EmptyStr)
          /\ liveRes[1].rows[PushRank(i)].item # Str(EmptyStr)
          /\ liveRes[1].rows[PushRank(i)].bin # Str(EmptyStr)

-----------------------------------------------------------------------------
\* Both pipelines: a request to a report handler or to the live handler.

InitRows == InitReport \/ InitJoin

NextRows == NextReport \/ NextJoin

SpecRows == InitRows /\ [][NextRows]_vars

RowFields == {"item", "serial", "expiration", "qty", "cost", "bin"}

RowDefined(row) ==
    /\ DOMAIN row = RowFields
    /\ \A f \in RowFields : row[f].t # "undefined"

\* The record has none of the given keys (or there is no record).
NoneOf(r, keys) == Nullish(r) \/ \A k \in keys : Get(r, k) = Undefined

SeqRange(q) == {q[i] : i \in 1..Len(q)}

\* The raw records the JSON-first handler normalises for the body it read.
JsonFirstRawRecords ==
    LET j == JSONparse(upstream.body) IN
    IF j.ok /\ j.v.t = "array" THEN j.v.a
    ELSE CsvRowValues(parseCsvToObjects(upstream.body)).a

\* C7: every row of a 200 response of either pipeline has the six fields
\* item, serial, expiration, qty, cost, bin, none of them undefined; a field
\* for which the raw record has no alias (or whose joined entity is missing)
\* is "" for item, serial, expiration and bin, 0 for qty, and for cost 0 in
\* the report pipeline and null in the live pipeline.
C7_RowFieldsAlwaysDefined ==
    /\ (entry = "report" /\ repRun # NoRun /\ repRun.status = 200) =>
          /\ \A k \in 1..Len(repRun.rows) : RowDefined(repRun.rows[k])
          /\ repRun.by = "jsonFirst" =>
                /\ Len(repRun.rows) = Len(JsonFirstRawRecords)
                /\ \A k \in 1..Len(repRun.rows) :
                      LET r   == JsonFirstRawRecords[k]
                          row == repRun.rows[k]
                      IN  /\ NoneOf(r, SeqRange(ItemAliases)) => row.item = Str(EmptyStr)
                          /\ NoneOf(r, SeqRange(SerialAliases)) => row.serial = Str(EmptyStr)
                          /\ NoneOf(r, SeqRange(ExpirationAliases)) => row.expiration = Str(EmptyStr)
                          /\ NoneOf(r, SeqRange(BinAliases)) => row.bin = Str(EmptyStr)
                          /\ NoneOf(r, SeqRange(QtyAliases)) => row.qty = Num(0)
                          /\ NoneOf(r, SeqRange(CostAliases)) => row.cost = Num(0)
    /\ JoinAnswered200 =>
          /\ \A k \in 1..Len(liveRes[1].rows) : RowDefined(liveRes[1].rows[k])
          /\ \A i \in BalanceIndices :
                StepOf(i).does = "pushes" =>
                LET r    == invBalances[i]
                    row  == liveRes[1].rows[PushRank(i)]
                    lot  == Lookup(lots, LotIdOf(i))
                    item == Lookup(items, ItemIdOf(i))
                    bin  == Lookup(bins, BinIdOf(i))
                IN  /\ NoneOf(item, {"Name", "ItemName"}) => row.item = Str(EmptyStr)
                    /\ NoneOf(lot, {"LotOrSerialNumber", "Serial", "IMEI"})
                          => row.serial = Str(EmptyStr)
                    /\ NoneOf(lot, {"ExpirationDate", "Expiry"}) => row.expiration = Str(EmptyStr)
                    /\ NoneOf(bin, {"Name"}) => row.bin = Str(EmptyStr)
                    /\ NoneOf(r, {"OnHand", "Qty"}) => row.qty = Num(0)
                    /\ NoneOf(item, SeqRange(ITEM_COST_FIELDS)) => row.cost = Null

\* A 200 response of the live handler with the row of a balance that has
\* neither quantity field and refers to no lot, item or bin: "" four times,
\* qty 0 and cost null.
C7_Witness ==
    /\ JoinAnswered200
    /\ \E i \in BalanceIndices :
          /\ StepOf(i).does = "pushes"
          /\ NoneOf(invBalances[i], {"OnHand", "Qty"})
          /\ liveRes[1].rows[PushRank(i)] =
                [item |-> Str(EmptyStr), serial |-> Str(EmptyStr), expiration |-> Str(EmptyStr),
                 qty |-> Num(0), cost |-> Null, bin |-> Str(EmptyStr)]

-----------------------------------------------------------------------------
(* The OrderTime list API: otList and listAll (part_002:10-65)             *)

TYPES ==
    [ INVENTORY  |-> "InventoryBalance",
      LOT_SERIAL |-> "LotOrSerialNo",
      BIN        |-> "Bin",
      ITEM       |-> "PartItem" ]

EntityTypes == {TYPES.INVENTORY, TYPES.LOT_SERIAL, TYPES.ITEM, TYPES.BIN}

\* opts.pageSize || 500   (part_002:24, part_002:60)
DefaultPageSize == 500

\* if (page > 200) break   (part_002:62)
PageCap == 200

\* The header schemes with Basic moved to the front.
triesBasicFirst(basic) ==
    (IF basic THEN <<"Authorization: Basic">> ELSE << >>)
    \o <<"Authorization: Bearer", "ApiKey", "X-API-KEY", "x-api-key">>

\* const tries, each header set named by the header that carries the
\* credential (part_002:30-39); basic is OT_BASIC_USER && OT_BASIC_PASS.
tries(basic) ==
    <<"Authorization: Bearer", "ApiKey", "X-API-KEY", "x-api-key">>
    \o (IF basic THEN <<"Authorization: Basic">> ELSE << >>)

\* /incorrect api key|unauthorized|forbidden|invalid token/i
AuthFailurePatterns ==
    { <<"i", "n", "c", "o", "r", "r", "e", "c", "t", " ", "a", "p", "i", " ", "k", "e", "y">>,
      <<"u", "n", "a", "u", "t", "h", "o", "r", "i", "z", "e", "d">>,
      <<"f", "o", "r", "b", "i", "d", "d", "e", "n">>,
      <<"i", "n", "v", "a", "l", "i", "d", " ", "t", "o", "k", "e", "n">> }

\* The test without the i flag.
MatchesAuthFailureCaseSensitive(text) ==
    \E p \in AuthFailurePatterns : Includes(text, p)

\* The regular expression's test(lastText)   (part_002:47)
MatchesAuthFailure(text) ==
    \E p \in AuthFailurePatterns : Includes(ToLowerCase(text), p)

\* The request fetch sends for otList(type, opts) with the header set
\* scheme (part_002:21-27, 43).
Request(type, opts, scheme) ==
    [ Type            |-> type,
      PageNumber      |-> OrJS(opts.page, Num(1)),
      NumberOfRecords |-> OrJS(opts.pageSize, Num(DefaultPageSize)),
      scheme          |-> scheme ]

NoRequest ==
    [Type |-> "", PageNumber |-> Undefined, NumberOfRecords |-> Undefined, scheme |-> ""]

\* What the endpoint does with a request: fetch rejects, or it resolves to
\* a response with a status whose body, when it can be read, is text (and
\* json, the value res.json() parses it to).
NetRejects ==
    [net |-> "rejects", status |-> 0, bodyReads |-> FALSE, json |-> Undefined, text |-> EmptyStr]
Ok(payload) ==
    [net |-> "responds", status |-> 200, bodyReads |-> TRUE, json |-> payload, text |-> EmptyStr]
Fail(status, text) ==
    [net |-> "responds", status |-> status, bodyReads |-> TRUE, json |-> Undefined, text |-> text]
Unreadable(status) ==
    [net |-> "responds", status |-> status, bodyReads |-> FALSE, json |-> Undefined, text |-> EmptyStr]

\* An error whose message leaves out the response body.
OtErrorWithoutBody(kind, type, status, text) ==
    [kind |-> kind, type |-> type, status |-> status, text |-> EmptyStr]

\* new Error(...) thrown by otList, or the rejection of fetch, res.json()
\* or res.text() passing through it.
OtError(kind, type, status, text) == [kind |-> kind, type |-> type, status |-> status, text |-> text]
NoError == OtError("", "", 0, EmptyStr)

\* What one turn of the loop of otList does with the response r to the
\* request sent with tries[n] (part_002:42-50): it returns a value, throws,
\* or goes round to fetch with tries[n + 1].
OtReturns(v)    == [does |-> "returns", value |-> v, error |-> NoError, lastText |-> EmptyStr]
OtThrows(e)     == [does |-> "throws", value |-> Undefined, error |-> e, lastText |-> e.text]
OtFetchesNext(t) == [does |-> "fetches", value |-> Undefined, error |-> NoError, lastText |-> t]

otListOnResponse(type, n, r, basic) ==
    IF r.net = "rejects" THEN OtThrows(OtError("fetch rejected", type, 0, EmptyStr))
    ELSE IF ResponseOk(r.status)
    THEN IF r.bodyReads THEN OtReturns(r.json)
         ELSE OtThrows(OtError("res.json() rejected", type, r.status, EmptyStr))
    ELSE IF ~r.bodyReads THEN OtThrows(OtError("res.text() rejected", type, r.status, EmptyStr))
    ELSE IF ~MatchesAuthFailure(r.text)
    THEN OtThrows(OtError("OT /list status", type, r.status, r.text))
    ELSE IF n < Len(tries(basic)) THEN OtFetchesNext(r.text)
    ELSE OtThrows(OtError("OT /list auth failed", type, 0, r.text))

\* Array.isArray(data?.Records) ? data.Records : (Array.isArray(data) ? data : [])
RecordsOf(data) ==
    IF GetOpt(data, "Records").t = "array" THEN GetOpt(data, "Records").a
    ELSE IF data.t = "array" THEN data.a
    ELSE << >>

\* A page test that finds no page short.
NeverShortPage(n, opts) == FALSE

\* The page test with <= for <.
IsShortPageOrFull(n, opts) == n <= OrJS(opts.pageSize, Num(DefaultPageSize)).n

\* arr.length < (opts.pageSize || 500)   (part_002:60)
IsShortPage(n, opts) == n < OrJS(opts.pageSize, Num(DefaultPageSize)).n

\* A listAll call: pc is "idle" before the call, "inflight" while a request
\* of its current otList call is awaited, "resolved" or "rejected" once it
\* has settled.  opts, page, out and data are listAll's; sent (the header
\* sets fetched with), lastText and error are those of its current or last
\* otList call, req is the request in flight.  got (the outcome of each
\* response of that otList call) and pageLens (arr.length of each page) are
\* kept for the properties.
Listing(pc, type, opts, page, sent, got, req, lastText, data, out, pageLens, error) ==
    [ pc |-> pc, type |-> type, opts |-> opts, page |-> page, sent |-> sent, got |-> got,
      req |-> req, lastText |-> lastText, data |-> data, out |-> out,
      pageLens |-> pageLens, error |-> error ]

NoOpts == [pageSize |-> Undefined]

IdleListing ==
    Listing("idle", "", NoOpts, 0, << >>, << >>, NoRequest, EmptyStr, Undefined,
            << >>, << >>, NoError)

\* otList(type, { ...opts, page }) up to its first await: the first fetch.
callOtList(s, basic) ==
    [s EXCEPT !.pc = "inflight",
              !.sent = <<tries(basic)[1]>>,
              !.got = << >>,
              !.lastText = EmptyStr,
              !.data = Undefined,
              !.req = Request(s.type, [page |-> Num(s.page), pageSize |-> s.opts.pageSize],
                              tries(basic)[1])]

\* listAll(type, opts) up to its first await.
callListAll(type, opts, basic) ==
    callOtList(Listing("idle", type, opts, 1, << >>, << >>, NoRequest, EmptyStr, Undefined,
                       << >>, << >>, NoError), basic)

Outcome(does, value) == [does |-> does, value |-> value]

\* The listing after the response r to its request in flight: the turn of
\* otList's loop and, when otList returns, the rest of the turn of
\* listAll's loop (part_002:57-62), which ends at the next fetch or at the
\* return; when otList throws, listAll rejects.
listingOnResponse(s, r, basic) ==
    LET n  == Len(s.sent)
        o  == otListOnResponse(s.type, n, r, basic)
    IN
    IF o.does = "fetches"
    THEN [s EXCEPT !.sent = Append(s.sent, tries(basic)[n + 1]),
                   !.got = Append(s.got, Outcome("auth failure", Undefined)),
                   !.lastText = o.lastText,
                   !.req = Request(s.type, [page |-> Num(s.page), pageSize |-> s.opts.pageSize],
                                   tries(basic)[n + 1])]
    ELSE IF o.does = "throws"
    THEN [s EXCEPT !.pc = "rejected",
                   !.got = Append(s.got, Outcome(o.error.kind, Undefined)),
                   !.lastText = o.lastText,
                   !.req = NoRequest,
                   !.error = o.error]
    ELSE LET arr  == RecordsOf(o.value)
             done == [s EXCEPT !.got = Append(s.got, Outcome("success", o.value)),
                               !.req = NoRequest,
                               !.data = o.value,
                               !.out = s.out \o arr,
                               !.pageLens = Append(s.pageLens, Len(arr))]
         IN  IF IsShortPage(Len(arr), s.opts) THEN [done EXCEPT !.pc = "resolved"]
             ELSE IF s.page + 1 > PageCap
             THEN [done EXCEPT !.pc = "resolved", !.page = s.page + 1]
             ELSE callOtList([done EXCEPT !.page = s.page + 1], basic)

-----------------------------------------------------------------------------
(* The live handler around the listings (part_002:75-101, 135-138)         *)

\* Promise.allSettled in place of Promise.all: settles when every promise
\* has, and never rejects.
PromiseAllSettled(ls) ==
    IF \A t \in {TYPES.LOT_SERIAL, TYPES.ITEM, TYPES.BIN} : ls[t].pc \in {"resolved", "rejected"}
    THEN "resolved"
    ELSE "pending"

\* Promise.all([listAll(LOT_SERIAL), listAll(ITEM), listAll(BIN)])
\* (part_002:97-101): rejected as soon as one listing is, resolved when all
\* three are.
PromiseAll(ls) ==
    IF \E t \in {TYPES.LOT_SERIAL, TYPES.ITEM, TYPES.BIN} : ls[t].pc = "rejected"
    THEN "rejected"
    ELSE IF \A t \in {TYPES.LOT_SERIAL, TYPES.ITEM, TYPES.BIN} : ls[t].pc = "resolved"
    THEN "resolved"
    ELSE "pending"

\* The page size of the handler's four listAll calls.  The source asks for
\* 500 records a page (part_002:94, 98-100); the model asks for this many,
\* so that full pages stay small.
HandlerPageSize == 2

HandlerOpts == [pageSize |-> Num(HandlerPageSize)]

\* The body of the 500 for a missing OT_BASE_URL or OT_API_KEY.
MissingEnvs ==
    LiveResponse(500, {"error", "haveBaseUrl", "haveKey"}, "Missing envs", << >>)

\* What the handler does once listAll for entity type L has moved to the
\* listings ls: nothing while it awaits; after the inventory, the three
\* dictionary listings; after the dictionaries, the join and the 200; and
\* in the catch, the 500.  A handler that has returned does nothing, and
\* neither does one that was never called (hpc = "none").
handlerContinue(L, ls) ==
    IF hpc = "awaitInventory" /\ ls[TYPES.INVENTORY].pc = "resolved"
    THEN /\ invBalances' = ls[TYPES.INVENTORY].out
         /\ lst' = [t \in EntityTypes |->
                       IF t = TYPES.INVENTORY THEN ls[t]
                       ELSE callListAll(t, HandlerOpts, otEnv.basic)]
         /\ hpc' = "awaitDictionaries"
         /\ UNCHANGED <<lots, items, bins, liveRes>>
    ELSE IF \/ hpc = "awaitInventory" /\ ls[TYPES.INVENTORY].pc = "rejected"
            \/ hpc = "awaitDictionaries" /\ PromiseAll(ls) = "rejected"
    THEN /\ lst' = ls
         /\ liveRes' = Append(liveRes, LiveResponse(500, {"error"}, ls[L].error.kind, << >>))
         /\ hpc' = "returned"
         /\ UNCHANGED <<invBalances, lots, items, bins>>
    ELSE IF hpc = "awaitDictionaries" /\ PromiseAll(ls) = "resolved"
    THEN /\ lst' = ls
         /\ lots' = ls[TYPES.LOT_SERIAL].out
         /\ items' = ls[TYPES.ITEM].out
         /\ bins' = ls[TYPES.BIN].out
         /\ liveRes' = Append(liveRes, handlerJoin(invBalances, ls[TYPES.LOT_SERIAL].out,
                                                   ls[TYPES.ITEM].out, ls[TYPES.BIN].out, query))
         /\ hpc' = "returned"
         /\ UNCHANGED invBalances
    ELSE /\ lst' = ls
         /\ UNCHANGED <<hpc, invBalances, lots, items, bins, liveRes>>

\* The response r to the request in flight of the listing for L arrives:
\* otList, listAll and the handler run up to their next await.
Respond(L, r) ==
    /\ lst[L].pc = "inflight"
    /\ handlerContinue(L, [lst EXCEPT ![L] = listingOnResponse(lst[L], r, otEnv.basic)])
    /\ UNCHANGED <<entry, csvVars, repVars, query, otEnv>>

-----------------------------------------------------------------------------
(* What the endpoint may answer                                            *)

\* The records the endpoint holds for each entity type; a page of n records
\* is the first n of them, starting over when they run out.
Feed(type) ==
    CASE type = TYPES.INVENTORY ->
            << Balance(Num(6), Undefined, Nested(1), Nested(1), Nested(1), Undefined),
               Balance(Num(6), Undefined, Flat(2), Flat(2), Flat(2), Undefined),
               Balance(Num(6), Undefined, Nested(1), Nested(1), Flat(9), Undefined) >>
      [] type = TYPES.LOT_SERIAL -> <<Lot1, Lot2, Lot1Dup>>
      [] type = TYPES.ITEM -> <<Item1, Item2, Item1NoCost>>
      [] type = TYPES.BIN -> <<Bin1Numeric, Bin2, Bin1>>

PageRecords(type, n) ==
    [k \in 1..n |-> Feed(type)[((k - 1) % Len(Feed(type))) + 1]]

RecordsPayload(recs) == Obj("Records" :> Arr(recs))

TextUnauthorized == <<"U", "n", "a", "u", "t", "h", "o", "r", "i", "z", "e", "d">>
TextInvalidToken == <<"I", "n", "v", "a", "l", "i", "d", " ", "T", "o", "k", "e", "n">>
TextBoom         == <<"b", "o", "o", "m">>
TextDenied       == <<"d", "e", "n", "i", "e", "d">>

-----------------------------------------------------------------------------
(* SpecList: one listAll call against an endpoint that answers anything    *)

\* The page size passed in opts, when one is passed.
ListPageSize == 1

\* The calls made: with a page size for one entity type, and without one
\* (the default of 500) for two.
ListCalls ==
    { <<TYPES.INVENTORY, [pageSize |-> Num(ListPageSize)]>>,
      <<TYPES.INVENTORY, NoOpts>>,
      <<TYPES.BIN, NoOpts>> }

NoBudget == [fullPages |-> 0, authFailures |-> 0]

NoListings == [t \in EntityTypes |-> IdleListing]

\* The answers to the request in flight of listing s.  Every page may be
\* answered by a rejected fetch, by a 401 "Unauthorized", by a 500 "boom",
\* or by a page of 0 to ListPageSize records under Records; the first page
\* also by the other failures, by an auth-pattern body under another
\* status, by a page with more records than asked for, by a full page as a
\* bare array, and by payloads that hold no array.
ListAnswers(s) ==
    { NetRejects, Fail(401, TextUnauthorized), Fail(500, TextBoom) }
    \cup {Ok(RecordsPayload(PageRecords(s.type, n))) : n \in 0..ListPageSize}
    \cup (IF s.page = 1
          THEN { Unreadable(200), Unreadable(500),
                 Fail(401, TextDenied), Fail(500, TextInvalidToken),
                 Ok(RecordsPayload(PageRecords(s.type, ListPageSize + 1))),
                 Ok(Arr(PageRecords(s.type, ListPageSize))), Ok(Obj(NoFields)), Ok(Null) }
          ELSE {})

InitList ==
    /\ entry = "listAll"
    /\ CsvIdle
    /\ RepIdle
    /\ JoinIdle
    /\ otEnv \in [baseUrl : {TRUE}, apiKey : {TRUE}, basic : BOOLEAN]
    /\ hpc = "none"
    /\ lst = NoListings
    /\ budget = NoBudget

CallListAll ==
    /\ entry = "listAll"
    /\ lst = NoListings
    /\ \E call \in ListCalls :
          lst' = [lst EXCEPT ![call[1]] = callListAll(call[1], call[2], otEnv.basic)]
    /\ UNCHANGED <<entry, csvVars, repVars, joinVars, otEnv, hpc, budget>>

ListRespond ==
    /\ entry = "listAll"
    /\ \E L \in EntityTypes :
          /\ lst[L].pc = "inflight"
          /\ \E r \in ListAnswers(lst[L]) : Respond(L, r)
    /\ UNCHANGED budget

NextList == CallListAll \/ ListRespond

SpecList == InitList /\ [][NextList]_vars

\* Every request is answered: the endpoint answers each page.
SpecListLive == SpecList /\ WF_vars(NextList)

-----------------------------------------------------------------------------
(* SpecLive: one request to the live handler                               *)

\* How many full pages the endpoint returns in one request, over the four
\* listings together.
MaxFullPages == 1

\* How many auth-pattern failures the endpoint answers in one request.
MaxAuthFailures == 1

LiveEnvs ==
    { [baseUrl |-> TRUE,  apiKey |-> TRUE,  basic |-> FALSE],
      [baseUrl |-> FALSE, apiKey |-> TRUE,  basic |-> FALSE],
      [baseUrl |-> TRUE,  apiKey |-> FALSE, basic |-> TRUE] }

LiveQueries ==
    { [location |-> Null, binPrefix |-> Null, qtygt |-> Null],
      [location |-> Null, binPrefix |-> Str(<<"C">>), qtygt |-> Str(<<"5">>)] }

FullPage(L) == Ok(RecordsPayload(PageRecords(L, HandlerPageSize)))

\* The answers to the request in flight of the listing for L: failures,
\* short pages, and a full page and an auth-pattern failure while the
\* endpoint has one left.
LiveAnswers(L) ==
    { NetRejects, Unreadable(200), Fail(500, TextBoom) }
    \cup {Ok(RecordsPayload(PageRecords(L, n))) : n \in {0, HandlerPageSize - 1}}
    \cup (IF budget.fullPages < MaxFullPages THEN {FullPage(L)} ELSE {})
    \cup (IF budget.authFailures < MaxAuthFailures THEN {Fail(401, TextUnauthorized)}
          ELSE {})

Spend(b, L, r) ==
    [ fullPages |-> IF r = FullPage(L) THEN b.fullPages + 1 ELSE b.fullPages,
      authFailures |-> IF r = Fail(401, TextUnauthorized) THEN b.authFailures + 1
                       ELSE b.authFailures ]

InitLive ==
    /\ entry = "live"
    /\ CsvIdle
    /\ RepIdle
    /\ otEnv \in LiveEnvs
    /\ query \in LiveQueries
    /\ hpc = "start"
    /\ lst = NoListings
    /\ budget = NoBudget
    /\ invBalances = << >>
    /\ lots = << >>
    /\ items = << >>
    /\ bins = << >>
    /\ liveRes = NoResponse

\* The handler up to its first await (part_002:75-94): the 500 for missing
\* configuration, or the first request of the inventory listing.
HandlerStart ==
    /\ entry = "live"
    /\ hpc = "start"
    /\ IF ~otEnv.baseUrl \/ ~otEnv.apiKey
       THEN /\ liveRes' = Append(liveRes, MissingEnvs)
            /\ hpc' = "returned"
            /\ UNCHANGED lst
       ELSE /\ lst' = [lst EXCEPT ![TYPES.INVENTORY] =
                          callListAll(TYPES.INVENTORY, HandlerOpts, otEnv.basic)]
            /\ hpc' = "awaitInventory"
            /\ UNCHANGED liveRes
    /\ UNCHANGED <<entry, csvVars, repVars, query, invBalances, lots, items, bins, otEnv, budget>>

LiveRespond ==
    /\ entry = "live"
    /\ \E L \in EntityTypes :
          /\ lst[L].pc = "inflight"
          /\ \E r \in LiveAnswers(L) :
                /\ Respond(L, r)
                /\ budget' = Spend(budget, L, r)

NextLive == HandlerStart \/ LiveRespond

SpecLive == InitLive /\ [][NextLive]_vars

-----------------------------------------------------------------------------
(* Properties of listAll and otList                                        *)

\* The page size a listing asks for: opts.pageSize, or 500 without one.
RequestedPageSize(s) ==
    IF s.opts.pageSize = Undefined THEN 500 ELSE s.opts.pageSize.n

ListingSettled(s) == s.pc \in {"resolved", "rejected"}

\* The listings that have been called.
Called == {L \in EntityTypes : lst[L].pc # "idle"}

\* The pages fetched so far were all full, i being the last of them.
AllFullUpTo(s, i) == \A k \in 1..i : s.pageLens[k] >= RequestedPageSize(s)

C1_PagesInOrder ==
    entry = "listAll" =>
        \A L \in Called :
            LET s == lst[L]
                fetched == Len(s.pageLens)
            IN  /\ fetched <= 200
                /\ s.pc = "inflight" =>
                      /\ s.req.PageNumber = Num(fetched + 1)
                      /\ s.req.NumberOfRecords = Num(RequestedPageSize(s))
                      /\ fetched < 200
                      /\ AllFullUpTo(s, fetched)
                /\ s.pc = "resolved" =>
                      /\ fetched >= 1
                      /\ AllFullUpTo(s, fetched - 1)
                      /\ \/ s.pageLens[fetched] < RequestedPageSize(s)
                         \/ fetched = 200
                /\ s.pc = "rejected" => AllFullUpTo(s, fetched)

\* C1: listAll asks for pages 1, 2, 3, ... in order, each only after the
\* pages before it came back full; it returns right after the first page
\* with fewer than pageSize records, and after page 200 when every page is
\* full, so it never asks for a 201st page; and when every request is
\* answered it settles.
C1_ListAllStopsAtShortPageOrCap ==
    /\ []C1_PagesInOrder
    /\ <>(entry = "listAll" /\ \E L \in Called : ListingSettled(lst[L]))

\* listAll returned after 200 full pages.
C1_Witness ==
    /\ entry = "listAll"
    /\ \E L \in Called :
          /\ lst[L].pc = "resolved"
          /\ Len(lst[L].pageLens) = 200
          /\ \A k \in 1..200 : lst[L].pageLens[k] = RequestedPageSize(lst[L])
          /\ Len(lst[L].out) = 200 * RequestedPageSize(lst[L])

\* The order in which the header schemes are to be tried.
SchemeOrder ==
    <<"Authorization: Bearer", "ApiKey", "X-API-KEY", "x-api-key", "Authorization: Basic">>

\* C2: the requests of one otList call go out under bearer, ApiKey,
\* X-API-KEY, x-api-key and then Basic (only with basic credentials), in
\* that order, each after an auth-pattern failure of the one before; when
\* the first k-1 fail so and the k-th succeeds, the call has sent exactly k
\* requests and returns the payload of the k-th.
C2_SchemesInOrderUntilSuccess ==
    entry = "listAll" =>
        \A L \in Called :
            LET s == lst[L]
                n == Len(s.sent)
                g == Len(s.got)
            IN  /\ n >= 1
                /\ n <= (IF otEnv.basic THEN 5 ELSE 4)
                /\ \A i \in 1..n : s.sent[i] = SchemeOrder[i]
                /\ g = (IF s.pc = "inflight" THEN n - 1 ELSE n)
                /\ \A i \in 1..(n - 1) : s.got[i].does = "auth failure"
                /\ s.pc = "inflight" => s.req.scheme = SchemeOrder[n]
                /\ (ListingSettled(s) /\ s.got[n].does = "success") =>
                      /\ s.pc = "resolved"
                      /\ s.data = s.got[n].value
                      /\ s.out = SubSeq(s.out, 1, Len(s.out) - Len(RecordsOf(s.data)))
                                   \o RecordsOf(s.got[n].value)

\* Two 401 "Unauthorized" and then a 200: three requests, under bearer,
\* ApiKey and X-API-KEY, and the records of the third in the result.
C2_Witness ==
    /\ entry = "listAll"
    /\ \E L \in Called :
          /\ lst[L].pc = "resolved"
          /\ lst[L].sent = <<"Authorization: Bearer", "ApiKey", "X-API-KEY">>
          /\ lst[L].lastText = TextUnauthorized
          /\ lst[L].got[3].does = "success"
          /\ Len(lst[L].out) > 0

-----------------------------------------------------------------------------
(* Properties of the live handler                                          *)

LiveConfigured == otEnv.baseUrl /\ otEnv.apiKey

\* Every otList call of the listing succeeded and the listing returned.
AllPagesSucceeded(s) ==
    /\ s.pc = "resolved"
    /\ s.got # << >>
    /\ s.got[Len(s.got)].does = "success"
    /\ Len(s.pageLens) >= 1

C10_FailureMeans500 ==
    entry = "live" =>
        /\ Len(liveRes) <= 1
        /\ hpc = "returned" => Len(liveRes) = 1
        /\ \A L \in EntityTypes :
              lst[L].pc = "rejected" =>
                 /\ lst[L].req = NoRequest
                 /\ liveRes # NoResponse
                 /\ liveRes[1].status = 500
                 /\ liveRes[1].keys = {"error"}
                 /\ liveRes[1].rows = << >>
        /\ (liveRes # NoResponse /\ liveRes[1].status = 200) =>
              /\ liveRes[1].keys = {"rows"}
              /\ \A L \in EntityTypes : AllPagesSucceeded(lst[L])

\* A listing that has failed does nothing more, and a response, once sent,
\* is the only one.
C10_NoRetryNoSecondResponse ==
    entry = "live" =>
        /\ \A L \in EntityTypes : lst[L].pc = "rejected" => lst'[L] = lst[L]
        /\ liveRes # NoResponse => liveRes' = liveRes

\* C10: when an otList call of any of the four listings fails, on any page,
\* the handler sends exactly one response, the 500 with { error } and no
\* rows, and that listing sends no further request; the 200 with { rows }
\* is sent only when every otList call of all four listings succeeded.
C10_FailedCallAbortsRequest ==
    /\ []C10_FailureMeans500
    /\ [][C10_NoRetryNoSecondResponse]_vars

\* The item listing failed on its second page after the lot listing had
\* returned, and the one response is the 500.
C10_Witness ==
    /\ entry = "live"
    /\ lst[TYPES.ITEM].pc = "rejected"
    /\ Len(lst[TYPES.ITEM].pageLens) = 1
    /\ lst[TYPES.LOT_SERIAL].pc = "resolved"
    /\ Len(liveRes) = 1
    /\ liveRes[1].status = 500

-----------------------------------------------------------------------------
(* Properties of otList's failures                                         *)

\* The failure responses of the endpoint whose body matches none of
\* "incorrect api key", "unauthorized", "forbidden", "invalid token", and
\* those whose body matches one, in whatever case.
FatalAnswers == {Fail(500, TextBoom), Fail(401, TextDenied)}
AuthAnswers  == {Fail(401, TextUnauthorized), Fail(500, TextInvalidToken)}

\* The otList call of the listing failed on a status.
FailedOnStatus(s) == s.pc = "rejected" /\ s.error.kind = "OT /list status"

C11_FatalFailureState ==
    entry = "listAll" =>
        \A L \in Called :
            LET s == lst[L] IN
            /\ FailedOnStatus(s) =>
                  /\ \E r \in FatalAnswers :
                        s.error.status = r.status /\ s.error.text = r.text
                  /\ s.error.type = s.type
                  /\ s.lastText = s.error.text
                  /\ s.req = NoRequest
                  /\ Len(s.got) = Len(s.sent)
                  /\ \A i \in 1..(Len(s.got) - 1) : s.got[i].does = "auth failure"
            /\ (s.pc = "inflight" /\ Len(s.sent) > 1) =>
                  \E r \in AuthAnswers : s.lastText = r.text
            /\ (s.pc = "rejected" /\ s.error.kind = "OT /list auth failed") =>
                  \E r \in AuthAnswers : s.error.text = r.text

\* A listing whose otList call has failed sends nothing more and fetches
\* no further page.
C11_FatalFailureStops ==
    entry = "listAll" =>
        \A L \in EntityTypes : lst[L].pc = "rejected" => lst'[L] = lst[L]

\* C11: a failure response whose body matches none of the auth-failure
\* patterns ends the otList call at once whatever its status: the error
\* carries that status and body, no further header scheme is tried and
\* listAll asks for no further page; the call goes on to the next scheme
\* only after a body that matches a pattern, in whatever case.
C11_NonAuthFailureIsFatal ==
    /\ []C11_FatalFailureState
    /\ [][C11_FatalFailureStops]_vars

\* On the third page, after a 401 "Unauthorized" under bearer, a 500 "boom"
\* under ApiKey: the call has failed with 500 and "boom" after two requests.
C11_Witness ==
    /\ entry = "listAll"
    /\ \E L \in Called :
          /\ FailedOnStatus(lst[L])
          /\ lst[L].error.status = 500
          /\ lst[L].error.text = TextBoom
          /\ lst[L].sent = <<"Authorization: Bearer", "ApiKey">>
          /\ Len(lst[L].pageLens) = 2

\* Every header scheme of the listing's otList call failed on an
\* auth-pattern body.
AuthExhausted(s) == s.pc = "rejected" /\ s.error.kind = "OT /list auth failed"

C12_ExhaustionState ==
    entry = "listAll" =>
        \A L \in Called :
            LET s == lst[L]
                n == Len(s.sent)
            IN  /\ \A i, j \in 1..n : s.sent[i] = s.sent[j] => i = j
                /\ AuthExhausted(s) =>
                      /\ n = (IF otEnv.basic THEN 5 ELSE 4)
                      /\ \A i \in 1..n : s.sent[i] = SchemeOrder[i]
                      /\ Len(s.got) = n
                      /\ \A i \in 1..(n - 1) : s.got[i].does = "auth failure"
                      /\ \E r \in AuthAnswers : s.error.text = r.text
                      /\ s.error.text = s.lastText
                      /\ s.req = NoRequest

\* Within one otList call each request goes out under the scheme after the
\* one before; a call that has failed sends nothing more.
C12_NoLoopBack ==
    entry = "listAll" =>
        \A L \in EntityTypes :
            LET s == lst[L]
                t == lst'[L]
            IN  /\ (s.pc = "inflight" /\ t.pc = "inflight" /\ t.page = s.page) =>
                      /\ Len(t.sent) = Len(s.sent) + 1
                      /\ SubSeq(t.sent, 1, Len(s.sent)) = s.sent
                      /\ t.req.scheme = SchemeOrder[Len(s.sent) + 1]
                      /\ t.req.PageNumber = s.req.PageNumber
                /\ AuthExhausted(s) => t = s

\* C12: when every header scheme of an otList call fails on an
\* auth-pattern body, the call has sent one request per scheme, 4 without
\* basic credentials and 5 with them, in order and none twice, and fails
\* with the auth-failed error that carries the last body; no request
\* follows under an earlier scheme.
C12_AuthExhaustionOnePerScheme ==
    /\ []C12_ExhaustionState
    /\ [][C12_NoLoopBack]_vars

\* With basic credentials, the call for the second page failed after five
\* requests, the last under Basic.
C12_Witness ==
    /\ entry = "listAll"
    /\ otEnv.basic
    /\ \E L \in Called :
          /\ AuthExhausted(lst[L])
          /\ Len(lst[L].sent) = 5
          /\ lst[L].sent[5] = "Authorization: Basic"
          /\ lst[L].error.text = TextUnauthorized
          /\ Len(lst[L].pageLens) = 1

-----------------------------------------------------------------------------
(* Properties of the handler's four listings                               *)

Dictionaries3 == {TYPES.LOT_SERIAL, TYPES.ITEM, TYPES.BIN}

\* The response to the request in flight for L arrives next.
AnswerFor(L) ==
    /\ entry = "live"
    /\ lst[L].pc = "inflight"
    /\ \E r \in LiveAnswers(L) :
          /\ Respond(L, r)
          /\ budget' = Spend(budget, L, r)

C13_ListingOrderState ==
    entry = "live" =>
        /\ \A D \in Dictionaries3 :
              lst[D].pc # "idle" =>
                 /\ lst[TYPES.INVENTORY].pc = "resolved"
                 /\ \A E \in Dictionaries3 : lst[E].pc # "idle"
        /\ \A L \in EntityTypes :
              LET s == lst[L]
                  fetched == Len(s.pageLens)
              IN  /\ s.pc = "inflight" =>
                        /\ s.req.Type = L
                        /\ s.req.PageNumber = Num(fetched + 1)
                        /\ \A k \in 1..fetched : s.pageLens[k] >= HandlerPageSize
                        /\ ENABLED AnswerFor(L)
                  /\ s.pc # "inflight" => s.req = NoRequest

\* A listing asks for its next page only in the step in which the page
\* before it came back full, and the dictionary listings start only in the
\* step in which the inventory listing returns.
C13_ListingOrderStep ==
    entry = "live" =>
        /\ \A L \in EntityTypes :
              LET s == lst[L]
                  t == lst'[L]
              IN  (s.pc = "inflight" /\ t.req.PageNumber # s.req.PageNumber /\ t.pc = "inflight") =>
                     /\ t.req.PageNumber = Num(s.req.PageNumber.n + 1)
                     /\ Len(t.pageLens) = Len(s.pageLens) + 1
                     /\ t.pageLens[Len(t.pageLens)] >= HandlerPageSize
        /\ \A D \in Dictionaries3 :
              (lst[D].pc = "idle" /\ lst'[D].pc # "idle") =>
                 /\ lst[TYPES.INVENTORY].pc = "inflight"
                 /\ lst'[TYPES.INVENTORY].pc = "resolved"
                 /\ lst'[D].pc = "inflight"
                 /\ lst'[D].req.PageNumber = Num(1)

\* C13: no request for lots, items or bins goes out before the inventory
\* listing has returned; the three dictionary listings then start together
\* and each one in flight can be answered next whatever the state of the
\* other two; a listing has one request in flight at most, and asks for
\* page N+1 only once page N has come back full.
C13_InventoryFirstThenConcurrent ==
    /\ []C13_ListingOrderState
    /\ [][C13_ListingOrderStep]_vars

\* The bin listing has returned while the lot listing still awaits its
\* first page and the item listing its second.
C13_Witness ==
    /\ entry = "live"
    /\ liveRes = NoResponse
    /\ lst[TYPES.BIN].pc = "resolved"
    /\ lst[TYPES.LOT_SERIAL].pc = "inflight"
    /\ lst[TYPES.LOT_SERIAL].req.PageNumber = Num(1)
    /\ lst[TYPES.ITEM].pc = "inflight"
    /\ lst[TYPES.ITEM].req.PageNumber = Num(2)

-----------------------------------------------------------------------------
(* The join alone and the whole handler: rows against balances             *)

InitLiveRows == InitJoin \/ InitLive

NextLiveRows == NextJoin \/ NextLive

SpecLiveRows == InitLiveRows /\ [][NextLiveRows]_vars

\* The live handler, entered at the join or at the start, has answered 200.
LiveAnswered200 ==
    /\ entry \in {"liveJoin", "live"}
    /\ liveRes # NoResponse
    /\ liveRes[1].status = 200

\* The bin name balance i resolves to under the bin records binList ("" for
\* none), and whether the binPrefix filter drops the balance for it.
ResolvedBinName(i, binList) ==
    OrJS(GetOpt(Lookup(binList, BinIdOf(i)), "Name"), Str(EmptyStr))

DroppedForBin(i, binList) ==
    /\ Truthy(query.binPrefix)
    /\ ResolvedBinName(i, binList) # Str(EmptyStr)
    /\ ~StartsWith(ResolvedBinName(i, binList).s, query.binPrefix.s)

\* What the balance alone decides: the quantity and location filters.
PassesOwnFilters(i) ==
    /\ ~QtySkips(ResolveQty(invBalances[i]), QtyGt(query))
    /\ ~LocationSkips(query, invBalances[i])

\* The balances that are to have a row, and the place of each among them.
Kept == {i \in 1..Len(invBalances) : PassesOwnFilters(i) /\ ~DroppedForBin(i, bins)}

KeptRank(i) == Cardinality({j \in Kept : j <= i})

\* Dictionaries the join answers 200 with: no null record, and no bin name
\* that is not a string.
UsableDictionaries ==
    {d \in Dictionaries :
        /\ ~HasNull(d.lots) /\ ~HasNull(d.items) /\ ~HasNull(d.bins)
        /\ \A k \in 1..Len(d.bins) : Get(d.bins[k], "Name").t \in {"string", "undefined"}}

\* C14: the rows of a 200 response are the balances that pass the filters,
\* one row each, in the order of the balances; there are no more rows than
\* balances; each row carries its balance's quantity; with other lots,
\* items and bins the same balances have rows, in the same order, but for
\* those the binPrefix filter drops or keeps on the bin name they then
\* resolve to.
C14_RowsFollowBalances ==
    LiveAnswered200 =>
        /\ (entry = "live" => invBalances = lst[TYPES.INVENTORY].out)
        /\ Len(liveRes[1].rows) = Cardinality(Kept)
        /\ Len(liveRes[1].rows) <= Len(invBalances)
        /\ \A i \in Kept :
              /\ liveRes[1].rows[KeptRank(i)].qty = ResolveQty(invBalances[i])
              /\ liveRes[1].rows[KeptRank(i)].bin = ResolvedBinName(i, bins)
        /\ \A d \in UsableDictionaries :
              LET other == handlerJoin(invBalances, d.lots, d.items, d.bins, query)
                  keptThen == {i \in 1..Len(invBalances) :
                                  PassesOwnFilters(i) /\ ~DroppedForBin(i, d.bins)}
              IN  /\ other.status = 200
                  /\ Len(other.rows) = Cardinality(keptThen)
                  /\ \A i \in keptThen :
                        other.rows[Cardinality({j \in keptThen : j <= i})].qty
                           = ResolveQty(invBalances[i])
                  /\ ~Truthy(query.binPrefix) => keptThen = Kept

\* A 200 of the handler entered at the start: three balances fetched over
\* two pages, a row for each, in the order fetched.
C14_Witness ==
    /\ entry = "live"
    /\ liveRes # NoResponse
    /\ liveRes[1].status = 200
    /\ Len(lst[TYPES.INVENTORY].pageLens) = 2
    /\ Len(invBalances) = 3
    /\ Len(liveRes[1].rows) = 3
    /\ liveRes[1].rows[1] # liveRes[1].rows[2]

=============================================================================
